---- MODULE Spec2Model ----
(***************************************************************************)
(* Model of the PromiseThread backend: the anonymous-credential registry   *)
(* (zk_login, verify_zk_proof, verify_real_zk_proof) and the vote ledger   *)
(* (submit_vote) of backend/main.py over the tables of backend/models.py.  *)
(*                                                                         *)
(* Every request handler runs in its own database session (get_db), so a   *)
(* handler is a sequence of steps: each query is one step that reads the   *)
(* committed tables, db.commit() is one step that flushes the pending      *)
(* INSERT/UPDATE statements under the storage constraints and commits or   *)
(* rolls back as a whole.  Workers are the server processes that serve     *)
(* requests at the same time.                                              *)
(***************************************************************************)
EXTENDS Integers, FiniteSets, Sequences, TLC

\* ------------------------------------------------------------------------
\* Bounds of the model
\* ------------------------------------------------------------------------
MaxStamp == 2
\* the largest counter value a classified manifesto starts with
MaxTally == 5
\* the largest number of leaves of a registry whose tree is built
MaxLeaves == 5
\* the largest number of rows of a voter list that is loaded
MaxVoters == 3
\* the audit log takes requests while it has fewer entries than this
MaxBlocks == 3

\* ------------------------------------------------------------------------
\* utils/merkle_tree.py: the SHA256 tree of class MerkleTree
\* ------------------------------------------------------------------------
\* hashlib.sha256(data.encode()).hexdigest(): the digest is written as the
\* term of its input, so that two inputs have the same digest only when
\* they are the same string
hash_node(data) == "H(" \o data \o ")"

\* "zero_hash = self.hash_node('')"
zero_hash == hash_node("")

\* "2 ** math.ceil(math.log2(max(n, 1)))": the least power of two >= n
RECURSIVE Pow2From(_, _)
Pow2From(p, n) == IF p >= n THEN p ELSE Pow2From(2 * p, n)
next_pow_2(n) == Pow2From(1, n)

\* "current_level = self.leaves + [zero_hash] * (next_pow_2 - n)"
padding(L) == [i \in 1..(next_pow_2(Len(L)) - Len(L)) |-> zero_hash]

\* "for i in range(0, len(current_level), 2): hash_node(left + right)"
next_level(current_level) ==
    [i \in 1..(Len(current_level) \div 2) |->
        hash_node(current_level[2 * i - 1] \o current_level[2 * i])]

\* "while len(current_level) > 1: ... self.tree.append(next_level)"
RECURSIVE GrowTree(_)
GrowTree(tree) ==
    IF Len(tree[Len(tree)]) > 1
    THEN GrowTree(Append(tree, next_level(tree[Len(tree)])))
    ELSE tree

\* _build_sha256_tree: the levels from the padded leaves up to the root
build_sha256_tree(L) == GrowTree(<<L \o padding(L)>>)

\* build_tree on the SHA256 path (use_poseidon off, or the Poseidon helper
\* failed): no leaves give the root "" and no tree
build_treeNoEmptyCase(L) ==
    LET tree == build_sha256_tree(L)
    IN  [tree |-> tree, root |-> tree[Len(tree)][1]]
build_tree(L) ==
    IF Len(L) = 0 THEN [tree |-> <<>>, root |-> ""]
    ELSE LET tree == build_sha256_tree(L)
         IN  [tree |-> tree, root |-> tree[Len(tree)][1]]

\* ------------------------------------------------------------------------
\* Value domains
\* ------------------------------------------------------------------------
None == "None"
Workers == {"w1", "w2"}
Nullifiers == {"n1", "n2"}
\* the voter list of the registry the credentials are issued from
RegisteredVoters == <<"v1", "v2">>
R1 == build_tree(RegisteredVoters).root
\* the roots a client can claim: of the empty registry and of the voter list
Roots == {"", R1}
ClientCreds == {"cA", "cB"}
\* a nullifier that no issuing request ever carries
Unissued == "invalid_nullifier"
ManifestoIds == {1, 2, 3}
\* the leaves a registry is built from: "v1", "v2", ...
LeafPool == {"v" \o ToString(i) : i \in 1..MaxLeaves}
\* a leaf that no registry holds
ForeignLeaf == "v0"
\* the voter lists: every order ("random.shuffle") of up to MaxLeaves leaves
LeafLists ==
    UNION {{L \in [1..n -> LeafPool] :
               \A i \in 1..n : \A j \in 1..n : L[i] = L[j] => i = j} :
           n \in 1..MaxLeaves}

\* the voter ids of the rows of a voter list: "id1", "id2", ...
VoterIds == {"id" \o ToString(i) : i \in 1..MaxVoters}
\* the voter lists: up to MaxVoters rows, a voter id in any number of them
\* and rows without one
VoterLists == UNION {[1..n -> VoterIds \cup {""}] : n \in 0..MaxVoters}

\* "self.depth = 15  # Supports 2^15 = 32,768 voters"
depth == 15
\* the literal "0" * 64 of _get_sha256_proof (no digest: a digest is an H term)
ZeroElement == "0"
VoteTypes == {"kept", "broken", "maybe"}

\* seed_data.py: the "voting open" manifesto is seeded with these counters
SeedVoteKept == 245
SeedVoteBroken == 89

\* tests/test_scenarios.py: "if kept_pct >= 60"
ConsensusPct == 60

VARIABLES
    leaves,      \* registry.leaves (merkle_tree is rebuilt from it as a whole)
    root,        \* registry.merkle_tree.root
    registry,    \* the other fields of the VoterRegistry object, and how far
                 \* its constructor has come
    creds,       \* table zk_credentials: set of rows
    votes,       \* table manifesto_votes: set of rows
    manifestos,  \* table manifestos: id -> row (ids never deleted)
    audit_logs,  \* table audit_logs: the rows in the order of their ids
    chain,       \* the ManifestoRegistry contract: registered politicians and
                 \* submitted manifesto hashes
    comments,    \* table comments: id -> row (a deleted comment has no row)
    comment_votes,  \* table comment_votes: set of rows
    valid_comment_vote_type,  \* the values the check constraint of that
                 \* name on comment_votes.vote_type lets through
    clock,       \* wall clock (datetime.now)
    stamp,       \* number of vote hashes generated so far (timestamp in the hash)
    pc,          \* per worker: position in the handler it is running
    loc,         \* per worker: local variables of the running handler
    resp         \* per worker: the response of the finished handler

vars == <<leaves, root, registry, creds, votes, manifestos, audit_logs, chain,
          comments, comment_votes, valid_comment_vote_type,
          clock, stamp, pc, loc, resp>>

\* CheckConstraint(vote_type.in_(['up', 'down'])) of the CommentVote model,
\* which is what Base.metadata.create_all in init_db creates
ModelVoteTypes == {"up", "down"}
\* CHECK (vote_type IN ('up', 'down', 'flag')) of the migration
\* add_comment_moderation_fields
MigratedVoteTypes == {"up", "down", "flag"}

\* the contract right after its deployment
EmptyChain == [politicians |-> {}, manifestos |-> {}]

\* "for idx, comm in enumerate(self.leaves): self._commitment_map[comm] = idx":
\* the entries of L written over the map, a repeated commitment keeping its
\* last index (from 0)
LeavesOf(L) == {L[i] : i \in 1..Len(L)}
MapLeavesFromOne(map, L) ==
    [c \in DOMAIN map \cup LeavesOf(L) |->
        IF c \in LeavesOf(L)
        THEN CHOOSE i \in 1..Len(L) :
                 L[i] = c /\ \A j \in 1..Len(L) : L[j] = c => j <= i
        ELSE map[c]]
MapLeaves(map, L) ==
    [c \in DOMAIN map \cup LeavesOf(L) |->
        IF c \in LeavesOf(L)
        THEN (CHOOSE i \in 1..Len(L) :
                 L[i] = c /\ \A j \in 1..Len(L) : L[j] = c => j <= i) - 1
        ELSE map[c]]

\* the VoterRegistry object "registry = VoterRegistry(CSV_PATH, ...)" once its
\* constructor has returned with the leaves L, on the SHA256 path
\* (USE_POSEIDON=false); commitments is the local list of a running
\* load_and_build
PublishedRegistry(L) ==
    [pc |-> "published", commitments |-> <<>>, voter_count |-> Len(L),
     shuffle_seed |-> 0, use_poseidon |-> FALSE,
     commitment_map |-> MapLeaves(<<>>, L), warned |-> FALSE]

\* ------------------------------------------------------------------------
\* Requests
\* ------------------------------------------------------------------------
\* class ZKProofRequest: publicSignals is a list, the other fields Optional
ZKProofRequest ==
    [nullifier : Nullifiers \cup {None},
     merkle_root : Roots \cup {None},
     publicSignals : {<<>>} \cup {<<n, r>> : n \in Nullifiers, r \in Roots},
     credential : ClientCreds \cup {None}]

\* class ZKProofVerifyRequest: publicSignals = [nullifier, voterIdHash, commitment]
ZKProofVerifyRequest ==
    [merkle_root : Roots,
     publicSignals : {<<>>} \cup {<<n, "vh", "cm">> : n \in Nullifiers}]

\* class VoteRequest
VoteRequest ==
    [manifesto_id : ManifestoIds, vote_type : VoteTypes,
     nullifier : Nullifiers \cup {Unissued}]

\* Python truthiness of an Optional[str]
Truthy(s) == s # None /\ s # ""

\* ------------------------------------------------------------------------
\* Local state and responses
\* ------------------------------------------------------------------------
NoSnap == [vote_kept |-> 0, vote_broken |-> 0]

\* the columns of a manifesto row that the handler works on
Loaded(row) == [vote_kept |-> row.vote_kept, vote_broken |-> row.vote_broken]

IdleLoc ==
    [op |-> "idle", nullifier |-> None, credential |-> None,
     rootOk |-> FALSE, explicitOk |-> FALSE,
     manifesto_id |-> 0, vote_type |-> None, snap |-> NoSnap,
     existing |-> {}, vote_hash |-> <<>>, validAtCall |-> FALSE,
     verifierFailed |-> FALSE]

NoResp ==
    [op |-> "none", status |-> 0, kind |-> "none", valid |-> FALSE,
     credential |-> None, nullifier |-> None, used_votes |-> {},
     stale |-> FALSE, stored |-> FALSE, existed |-> FALSE, asked |-> None,
     vote_hash |-> <<>>, changed |-> FALSE,
     manifesto_id |-> 0, vote_type |-> None, validAtCall |-> FALSE,
     verifierFailed |-> FALSE, can_vote |-> FALSE, aggregate |-> <<>>,
     proof |-> <<>>, leaf_index |-> 0, leaf |-> None]

\* ------------------------------------------------------------------------
\* Storage: queries and constraints
\* ------------------------------------------------------------------------
\* Query.first(): one of the matching rows (the lowest id), or none
First(rows) ==
    IF rows = {} THEN {}
    ELSE {CHOOSE r \in rows : \A q \in rows : r.id <= q.id}

\* db.query(ZKCredential).filter(ZKCredential.nullifier_hash == n)
CredsOf(n) == {c \in creds : c.nullifier_hash = n}

\* db.query(ManifestoVote.manifesto_id).filter(ManifestoVote.nullifier == n).all()
\* (a filter "== None" matches no row: nullifier is NOT NULL)
UsedVotesAll(n) == {v.manifesto_id : v \in votes}
UsedVotes(n) == {v.manifesto_id : v \in {x \in votes : x.nullifier = n}}

\* zk_credentials.nullifier_hash: unique=True
UniqueNullifierOff(rows, n) == TRUE
UniqueNullifier(rows, n) == \A c \in rows : c.nullifier_hash # n

\* secrets.token_urlsafe(16): a fresh token, distinct from every stored one
Tokens == <<"tok1", "tok2", "tok3", "tok4">>
generate_credential ==
    IF Cardinality(creds) < Len(Tokens) THEN Tokens[Cardinality(creds) + 1]
    ELSE "tokN"

Init ==
    /\ leaves \in {<<>>, RegisteredVoters}
    /\ root = build_tree(leaves).root
    /\ registry = PublishedRegistry(leaves)
    /\ audit_logs = <<>>
    /\ chain = EmptyChain
    /\ comments = <<>>
    /\ comment_votes = {}
    /\ valid_comment_vote_type = ModelVoteTypes
    /\ creds = {}
    /\ votes = {}
    /\ manifestos =
         (1 :> [vote_kept |-> 0, vote_broken |-> 0, grace_period_end |-> 1]) @@
         (2 :> [vote_kept |-> SeedVoteKept, vote_broken |-> SeedVoteBroken,
                grace_period_end |-> 0])
    /\ clock = 0
    /\ stamp = 0
    /\ pc = [w \in Workers |-> "idle"]
    /\ loc = [w \in Workers |-> IdleLoc]
    /\ resp = [w \in Workers |-> NoResp]

\* ------------------------------------------------------------------------
\* Environment
\* ------------------------------------------------------------------------
\* the latest grace_period_end of the manifestos table
LastGraceEnd ==
    CHOOSE g \in {manifestos[m].grace_period_end : m \in DOMAIN manifestos} :
        \A m \in DOMAIN manifestos : manifestos[m].grace_period_end <= g

\* datetime.now() advances.  "now < grace_end" is false of every manifesto
\* from the last grace_period_end on, so the clock stops there
Tick ==
    /\ clock < LastGraceEnd
    /\ clock' = clock + 1
    /\ UNCHANGED <<leaves, root, registry, comments, comment_votes, valid_comment_vote_type, audit_logs, chain, creds, votes, manifestos, stamp, pc, loc, resp>>

\* the registry is rebuilt from another voter list, one of Lists: a new root
\* is published
load_and_build_from(Lists) ==
    /\ \E L \in Lists \ {leaves} :
          /\ leaves' = L
          /\ root' = build_tree(L).root
          /\ registry' = PublishedRegistry(L)
    /\ UNCHANGED <<comments, comment_votes, valid_comment_vote_type, audit_logs, chain, creds, votes, manifestos, clock, stamp, pc,
                 loc, resp>>

load_and_build == load_and_build_from({<<>>, RegisteredVoters})

\* the client has read the response: the worker is free again
Return(w) ==
    /\ pc[w] = "done"
    /\ pc' = [pc EXCEPT ![w] = "idle"]
    /\ loc' = [loc EXCEPT ![w] = IdleLoc]
    /\ resp' = [resp EXCEPT ![w] = NoResp]
    /\ UNCHANGED <<leaves, root, registry, comments, comment_votes, valid_comment_vote_type, audit_logs, chain, creds, votes, manifestos, clock, stamp>>

Finish(w, r) ==
    /\ pc' = [pc EXCEPT ![w] = "done"]
    /\ loc' = [loc EXCEPT ![w] = IdleLoc]
    /\ resp' = [resp EXCEPT ![w] = r]

\* ------------------------------------------------------------------------
\* Credential issuing: zk_login, verify_zk_proof
\* ------------------------------------------------------------------------
\* "if request.nullifier and request.merkle_root ... elif request.publicSignals
\* and len(request.publicSignals) >= 2": the pair (nullifier, client_root),
\* or the empty tuple when the request has neither format
Signals(rq) ==
    IF Truthy(rq.nullifier) /\ Truthy(rq.merkle_root)
    THEN <<rq.nullifier, rq.merkle_root>>
    ELSE IF Len(rq.publicSignals) >= 2
         THEN <<rq.publicSignals[1], rq.publicSignals[2]>>
         ELSE <<>>

\* "if client_root != registry.merkle_tree.root: return valid=False"
RootMatchesOff(client_root, current) == TRUE
RootMatches(client_root, current) == client_root = current

\* the ZKCredential row added by an issuing handler
NewCredential(n, credential) ==
    [id |-> Cardinality(creds) + 1, nullifier_hash |-> n,
     credential_hash |-> credential, is_valid |-> TRUE]

\* db.add(zk_cred); db.commit(): the INSERT is refused when the unique index
\* on nullifier_hash is violated (IntegrityError, the handler ends with 500)
CommitCredential(w, op, credential) ==
    LET n == loc[w].nullifier
        base == [NoResp EXCEPT !.op = op, !.nullifier = n,
                               !.stale = ~loc[w].rootOk]
    IN  IF UniqueNullifier(creds, n)
        THEN /\ creds' = creds \cup {NewCredential(n, credential)}
             /\ Finish(w, [base EXCEPT !.status = 200, !.kind = "issued",
                                       !.valid = TRUE, !.stored = TRUE,
                                       !.credential = credential])
        ELSE /\ creds' = creds
             /\ Finish(w, [base EXCEPT !.status = 500,
                                       !.kind = "IntegrityError"])

\* zk_login up to the point where the credential is about to be stored
zk_login(w) ==
    \E rq \in ZKProofRequest :
    /\ pc[w] = "idle"
    /\ UNCHANGED <<leaves, root, registry, comments, comment_votes, valid_comment_vote_type, audit_logs, chain, creds, votes, manifestos, clock, stamp>>
    /\ LET sig == Signals(rq)
           base == [NoResp EXCEPT !.op = "zk_login", !.status = 200]
       IN  IF sig = <<>>
           THEN Finish(w, [base EXCEPT !.kind = "missing"])
           ELSE
           LET nullifier == sig[1]
               client_root == sig[2]
               existing == First(CredsOf(nullifier))
               seen == [base EXCEPT !.stale = (client_root # root)]
           IN  IF ~RootMatches(client_root, root)
               THEN Finish(w, [seen EXCEPT !.kind = "stale"])
               ELSE IF existing # {}
               THEN Finish(w, [seen EXCEPT
                        !.kind = "welcome", !.valid = TRUE,
                        !.credential = (CHOOSE e \in existing : TRUE).credential_hash,
                        !.nullifier = nullifier,
                        !.used_votes = UsedVotes(nullifier),
                        !.existed = TRUE, !.asked = nullifier])
               ELSE /\ pc' = [pc EXCEPT ![w] = "login_commit"]
                    /\ loc' = [loc EXCEPT ![w] =
                          [IdleLoc EXCEPT !.op = "zk_login",
                                          !.nullifier = nullifier,
                                          !.credential = rq.credential,
                                          !.rootOk = (client_root = root)]]
                    /\ resp' = resp

\* zk_login: "credential = request.credential or generate_credential()",
\* db.add(zk_cred), db.commit()
zk_login_commit(w) ==
    /\ pc[w] = "login_commit"
    /\ UNCHANGED <<leaves, root, registry, comments, comment_votes, valid_comment_vote_type, audit_logs, chain, votes, manifestos, clock, stamp>>
    /\ CommitCredential(w, "zk_login",
          IF Truthy(loc[w].credential) THEN loc[w].credential
          ELSE generate_credential)

\* verify_zk_proof up to the point where the credential is about to be stored.
\* The branch for an existing credential reads request.nullifier, not the
\* extracted nullifier: request.nullifier[:12] raises TypeError when the
\* request came in the publicSignals format
verify_zk_proof(w) ==
    \E rq \in ZKProofRequest :
    /\ pc[w] = "idle"
    /\ UNCHANGED <<leaves, root, registry, comments, comment_votes, valid_comment_vote_type, audit_logs, chain, creds, votes, manifestos, clock, stamp>>
    /\ LET sig == Signals(rq)
           base == [NoResp EXCEPT !.op = "verify_zk_proof", !.status = 200]
       IN  IF sig = <<>>
           THEN Finish(w, [base EXCEPT !.kind = "missing"])
           ELSE
           LET nullifier == sig[1]
               client_root == sig[2]
               existing == First(CredsOf(nullifier))
               seen == [base EXCEPT !.stale = (client_root # root)]
           IN  IF ~RootMatches(client_root, root)
               THEN Finish(w, [seen EXCEPT !.kind = "stale"])
               ELSE IF existing # {}
               THEN IF rq.nullifier = None
                    THEN Finish(w, [seen EXCEPT !.status = 500,
                                                !.kind = "TypeError",
                                                !.existed = TRUE,
                                                !.asked = nullifier])
                    ELSE Finish(w, [seen EXCEPT
                        !.kind = "welcome", !.valid = TRUE,
                        !.credential = (CHOOSE e \in existing : TRUE).credential_hash,
                        !.nullifier = rq.nullifier,
                        !.used_votes = UsedVotes(rq.nullifier),
                        !.existed = TRUE, !.asked = nullifier])
               ELSE /\ pc' = [pc EXCEPT ![w] = "verify_commit"]
                    /\ loc' = [loc EXCEPT ![w] =
                          [IdleLoc EXCEPT !.op = "verify_zk_proof",
                                          !.nullifier = nullifier,
                                          !.credential = rq.credential,
                                          !.rootOk = (client_root = root)]]
                    /\ resp' = resp

verify_zk_proof_commit(w) ==
    /\ pc[w] = "verify_commit"
    /\ UNCHANGED <<leaves, root, registry, comments, comment_votes, valid_comment_vote_type, audit_logs, chain, votes, manifestos, clock, stamp>>
    /\ CommitCredential(w, "verify_zk_proof",
          IF Truthy(loc[w].credential) THEN loc[w].credential
          ELSE generate_credential)

\* ------------------------------------------------------------------------
\* Credential issuing with the external verifier: verify_real_zk_proof
\* ------------------------------------------------------------------------
\* what subprocess.run(['node', VERIFY_SCRIPT, ...], timeout=30) can produce
ProcessResults ==
    [kind : {"ran"},
     stdout : {"", "valid_true", "valid_false", "no_valid_key", "not_json"},
     stderr : {"", "err"},
     returncode : {0, 1}]
    \cup
    [kind : {"TimeoutExpired", "FileNotFoundError", "Exception"},
     stdout : {""}, stderr : {""}, returncode : {1}]

\* zk_verifier.verify_groth16_proof_nodejs: the is_valid it returns
verify_groth16_proof_nodejsOpen(p) == TRUE
verify_groth16_proof_nodejs(p) ==
    IF p.kind # "ran" THEN FALSE
    ELSE IF p.stdout # ""
         THEN p.stdout = "valid_true"
         ELSE IF p.stderr # "" THEN FALSE
              ELSE p.returncode = 0

\* the verifier's output says valid: true
ExplicitSuccess(p) == p.kind = "ran" /\ p.stdout = "valid_true"

\* the verifier could not be run (node or the script missing), ran out of its
\* 30 s, raised, or ran and reported an error: error output or a non-zero
\* exit without a result, or a result that is no JSON
VerifierFailed(p) ==
    \/ p.kind # "ran"
    \/ p.stdout = "not_json"
    \/ p.stdout = "" /\ (p.stderr # "" \/ p.returncode # 0)

\* verify_groth16_proof_nodejs(proof, public_signals) called on its own: the
\* process result p and the is_valid the function returns for it
call_verify_groth16_proof_nodejs(w) ==
    \E p \in ProcessResults :
    /\ pc[w] = "idle"
    /\ Finish(w, [NoResp EXCEPT !.op = "verify_groth16_proof_nodejs",
                                !.asked = p,
                                !.valid = verify_groth16_proof_nodejs(p)])
    /\ UNCHANGED <<leaves, root, registry, comments, comment_votes, valid_comment_vote_type, audit_logs, chain, creds, votes,
                   manifestos, clock, stamp>>

\* "if str(request.merkle_root) != str(registry.merkle_tree.root)": both are
\* str already, str() leaves them as they are
RootMatchesStr(client_root, current) == client_root = current

verify_real_zk_proof(w) ==
    \E rq \in ZKProofVerifyRequest :
    /\ pc[w] = "idle"
    /\ UNCHANGED <<leaves, root, registry, comments, comment_votes, valid_comment_vote_type, audit_logs, chain, creds, votes, manifestos, clock, stamp>>
    /\ LET base == [NoResp EXCEPT !.op = "verify_real_zk_proof"]
       IN  IF Len(rq.publicSignals) < 3
           THEN Finish(w, [base EXCEPT !.status = 400, !.kind = "signals"])
           ELSE
           LET nullifier == rq.publicSignals[1]
               existing == First(CredsOf(nullifier))
               seen == [base EXCEPT !.stale = (rq.merkle_root # root)]
           IN  IF ~RootMatchesStr(rq.merkle_root, root)
               THEN Finish(w, [seen EXCEPT !.status = 400, !.kind = "stale"])
               ELSE IF existing # {}
               THEN Finish(w, [seen EXCEPT
                        !.status = 200, !.kind = "welcome", !.valid = TRUE,
                        !.credential = (CHOOSE e \in existing : TRUE).credential_hash,
                        !.nullifier = nullifier,
                        !.used_votes = UsedVotes(nullifier),
                        !.existed = TRUE, !.asked = nullifier])
               ELSE /\ pc' = [pc EXCEPT ![w] = "real_verify"]
                    /\ loc' = [loc EXCEPT ![w] =
                          [IdleLoc EXCEPT !.op = "verify_real_zk_proof",
                                          !.nullifier = nullifier,
                                          !.rootOk = (rq.merkle_root = root)]]
                    /\ resp' = resp

\* "is_valid, result = verify_groth16_proof_nodejs(...)";
\* "if not is_valid: raise HTTPException(401, ...)"
verify_real_zk_proof_verify(w) ==
    \E p \in ProcessResults :
    /\ pc[w] = "real_verify"
    /\ UNCHANGED <<leaves, root, registry, comments, comment_votes, valid_comment_vote_type, audit_logs, chain, creds, votes, manifestos, clock, stamp>>
    /\ IF verify_groth16_proof_nodejs(p)
       THEN /\ pc' = [pc EXCEPT ![w] = "real_commit"]
            /\ loc' = [loc EXCEPT ![w].explicitOk = ExplicitSuccess(p),
                                   ![w].verifierFailed = VerifierFailed(p)]
            /\ resp' = resp
       ELSE Finish(w, [NoResp EXCEPT !.op = "verify_real_zk_proof",
                                     !.status = 401, !.kind = "invalid_proof",
                                     !.stale = ~loc[w].rootOk,
                                     !.verifierFailed = VerifierFailed(p)])

\* "credential = generate_credential()", db.add(zk_cred), db.commit()
verify_real_zk_proof_commit(w) ==
    /\ pc[w] = "real_commit"
    /\ UNCHANGED <<leaves, root, registry, comments, comment_votes, valid_comment_vote_type, audit_logs, chain, votes, manifestos, clock, stamp>>
    /\ CommitCredential(w, "verify_real_zk_proof", generate_credential)

\* the is_valid flag of a credential is cleared (fraud-detection revocation);
\* the row stays
Revoke ==
    /\ \E c \in creds :
         /\ c.is_valid
         /\ creds' = (creds \ {c}) \cup {[c EXCEPT !.is_valid = FALSE]}
    /\ UNCHANGED <<leaves, root, registry, comments, comment_votes, valid_comment_vote_type, audit_logs, chain, votes, manifestos, clock, stamp, pc, loc, resp>>

\* ------------------------------------------------------------------------
\* Vote ledger: submit_vote
\* ------------------------------------------------------------------------
\* db.query(ZKCredential).filter(nullifier_hash == vote.nullifier,
\*                               is_valid == True).first() is not None
HasValidCredentialOff(rows, n) == TRUE
HasValidCredential(rows, n) ==
    \E c \in rows : c.nullifier_hash = n /\ c.is_valid = TRUE

\* "if now < grace_end: raise HTTPException(400, ...)"
GraceActiveOff(now, grace_end) == now <= grace_end
GraceActive(now, grace_end) == now < grace_end

\* generate_hash(f"{nullifier}{manifesto_id}{datetime.now().isoformat()}"):
\* the timestamp differs from call to call
generate_hash(n, m, t) == <<n, m, t>>

\* manifesto_votes: UniqueConstraint('manifesto_id', 'nullifier')
unique_vote_per_manifestoOff(rows, m, n) == TRUE
unique_vote_per_manifesto(rows, m, n) ==
    \A v \in rows : ~(v.manifesto_id = m /\ v.nullifier = n)

\* manifesto_votes: CheckConstraint(vote_type.in_(['kept', 'broken']))
valid_vote_typeAny(t) == TRUE
valid_vote_type(t) == t \in {"kept", "broken"}

\* get_db: "finally: db.close()" after an exception left the handler: the
\* rows the transaction had flushed are rolled back, the committed ones stay
close_sessionKeepsFlushed(committed, flushed) == flushed
close_session(committed, flushed) == committed

\* db.query(ManifestoVote).filter(manifesto_id == m, nullifier == n).first()
ExistingVote(m, n) ==
    First({v \in votes : v.manifesto_id = m /\ v.nullifier = n})

\* "if existing_vote.vote_type == 'kept': manifesto.vote_kept -= 1
\*  else: manifesto.vote_broken -= 1"
RemoveOldOff(snap, old) == snap
RemoveOld(snap, old) ==
    IF old = "kept" THEN [snap EXCEPT !.vote_kept = @ - 1]
    ELSE [snap EXCEPT !.vote_broken = @ - 1]

\* "if vote.vote_type == 'kept': manifesto.vote_kept += 1
\*  else: manifesto.vote_broken += 1"
AddNew(snap, vote_type) ==
    IF vote_type = "kept" THEN [snap EXCEPT !.vote_kept = @ + 1]
    ELSE [snap EXCEPT !.vote_broken = @ + 1]

\* "else: message = 'Vote unchanged (same choice)'": nothing is assigned
SameChoiceRehash(snap) ==
    [counters |-> snap, row |-> "update", changed |-> FALSE, kind |-> "unchanged"]
SameChoice(snap) ==
    [counters |-> snap, row |-> "none", changed |-> FALSE, kind |-> "unchanged"]

\* The branch of submit_vote between the existing_vote query and db.commit():
\* the new values of the manifesto object's counters (computed from the
\* values loaded by the manifesto query), what happens to the vote row, and
\* the message
VotePlan(snap, existing, vote_type) ==
    IF existing # {}
    THEN LET old == (CHOOSE e \in existing : TRUE).vote_type
         IN  IF old # vote_type
             THEN [counters |-> AddNew(RemoveOld(snap, old), vote_type),
                   row |-> "update", changed |-> TRUE, kind |-> "changed"]
             ELSE SameChoice(snap)
    ELSE [counters |-> AddNew(snap, vote_type),
          row |-> "insert", changed |-> FALSE, kind |-> "recorded"]

\* number of submit_vote handlers that have not generated their hash yet
PendingHashes == Cardinality({w \in Workers : pc[w] = "vote_existing"})

\* the response of a submit_vote handler
VoteResp(l, status, kind) ==
    [NoResp EXCEPT !.op = "submit_vote", !.status = status, !.kind = kind,
                   !.nullifier = l.nullifier,
                   !.manifesto_id = l.manifesto_id,
                   !.vote_type = l.vote_type,
                   !.validAtCall = l.validAtCall,
                   !.existed = (l.existing # {})]

\* submit_vote: the credential query and the manifesto query
submit_vote(w) ==
    \E rq \in VoteRequest :
    /\ pc[w] = "idle"
    /\ stamp + PendingHashes < MaxStamp
    /\ UNCHANGED <<leaves, root, registry, comments, comment_votes, valid_comment_vote_type, audit_logs, chain, creds, votes, manifestos, clock, stamp>>
    /\ LET held == \E c \in creds : c.nullifier_hash = rq.nullifier /\ c.is_valid
           l == [IdleLoc EXCEPT !.op = "submit_vote",
                                !.nullifier = rq.nullifier,
                                !.manifesto_id = rq.manifesto_id,
                                !.vote_type = rq.vote_type,
                                !.validAtCall = held]
       IN  IF ~HasValidCredential(creds, rq.nullifier)
           THEN Finish(w, VoteResp(l, 401, "unauthorized"))
           ELSE IF rq.manifesto_id \notin DOMAIN manifestos
           THEN Finish(w, VoteResp(l, 404, "not_found"))
           ELSE /\ pc' = [pc EXCEPT ![w] = "vote_existing"]
                /\ loc' = [loc EXCEPT ![w] =
                      [l EXCEPT !.snap = Loaded(manifestos[rq.manifesto_id])]]
                /\ resp' = resp

\* submit_vote: "now = datetime.now(timezone.utc)", the grace period check,
\* the existing_vote query and the vote_hash
submit_vote_existing(w) ==
    /\ pc[w] = "vote_existing"
    /\ UNCHANGED <<leaves, root, registry, comments, comment_votes, valid_comment_vote_type, audit_logs, chain, creds, votes, manifestos, clock>>
    /\ LET l == loc[w]
       IN  IF GraceActive(clock, manifestos[l.manifesto_id].grace_period_end)
           THEN /\ Finish(w, VoteResp(l, 400, "grace_period"))
                /\ stamp' = stamp
           ELSE /\ stamp' = stamp + 1
                /\ pc' = [pc EXCEPT ![w] = "vote_commit"]
                /\ loc' = [loc EXCEPT ![w] =
                      [l EXCEPT
                         !.existing = ExistingVote(l.manifesto_id, l.nullifier),
                         !.vote_hash = generate_hash(l.nullifier,
                                                     l.manifesto_id, stamp)]]
                /\ resp' = resp

\* submit_vote: the branch on existing_vote and db.commit().  The flush
\* writes the manifesto columns whose value was changed on the object
\* (UPDATE manifestos SET vote_kept = <new value>), then inserts or updates
\* the vote row; a violated constraint raises IntegrityError, nothing is
\* committed and the handler ends with 500
submit_vote_commit(w) ==
    /\ pc[w] = "vote_commit"
    /\ UNCHANGED <<leaves, root, registry, comments, comment_votes, valid_comment_vote_type, audit_logs, chain, creds, clock, stamp>>
    /\ LET l == loc[w]
           m == l.manifesto_id
           plan == VotePlan(l.snap, l.existing, l.vote_type)
           accepted ==
               CASE plan.row = "insert" ->
                        /\ unique_vote_per_manifesto(votes, m, l.nullifier)
                        /\ valid_vote_type(l.vote_type)
                 [] plan.row = "update" -> valid_vote_type(l.vote_type)
                 [] OTHER -> TRUE
           flushed ==
               [manifestos EXCEPT
                  ![m].vote_kept =
                      IF plan.counters.vote_kept # l.snap.vote_kept
                      THEN plan.counters.vote_kept ELSE @,
                  ![m].vote_broken =
                      IF plan.counters.vote_broken # l.snap.vote_broken
                      THEN plan.counters.vote_broken ELSE @]
       IN  IF accepted
           THEN /\ manifestos' = flushed
                /\ votes' =
                     CASE plan.row = "insert" ->
                            votes \cup {[id |-> Cardinality(votes) + 1,
                                         manifesto_id |-> m,
                                         nullifier |-> l.nullifier,
                                         vote_type |-> l.vote_type,
                                         vote_hash |-> l.vote_hash]}
                       [] plan.row = "update" ->
                            {IF v.id = (CHOOSE e \in l.existing : TRUE).id
                             THEN [v EXCEPT !.vote_type = l.vote_type,
                                            !.vote_hash = l.vote_hash]
                             ELSE v : v \in votes}
                       [] OTHER -> votes
                /\ Finish(w, [VoteResp(l, 200, plan.kind) EXCEPT
                                 !.valid = TRUE,
                                 !.vote_hash = l.vote_hash,
                                 !.changed = plan.changed])
           ELSE /\ manifestos' = close_session(manifestos, flushed)
                /\ votes' = close_session(votes, votes)
                /\ Finish(w, VoteResp(l, 500, "IntegrityError"))

\* ------------------------------------------------------------------------
\* Reads: check_credential, get_manifesto_votes
\* ------------------------------------------------------------------------
\* check_credential: the credential query and "if cred and cred.is_valid"
check_credential(w) ==
    \E n \in Nullifiers \cup {Unissued} :
    /\ pc[w] = "idle"
    /\ UNCHANGED <<leaves, root, registry, comments, comment_votes, valid_comment_vote_type, audit_logs, chain, creds, votes, manifestos, clock, stamp>>
    /\ LET cred == First(CredsOf(n))
       IN  IF cred # {} /\ (\A c \in cred : c.is_valid)
           THEN /\ pc' = [pc EXCEPT ![w] = "check_votes"]
                /\ loc' = [loc EXCEPT ![w] =
                      [IdleLoc EXCEPT !.op = "check_credential",
                                      !.nullifier = n, !.validAtCall = TRUE]]
                /\ resp' = resp
           ELSE Finish(w, [NoResp EXCEPT !.op = "check_credential",
                                         !.status = 200, !.kind = "invalid",
                                         !.nullifier = n,
                                         !.valid = FALSE, !.used_votes = {},
                                         !.can_vote = FALSE,
                                         !.existed = (cred # {})])

\* check_credential: the query of the voted manifesto ids and the response
check_credential_votes(w) ==
    /\ pc[w] = "check_votes"
    /\ UNCHANGED <<leaves, root, registry, comments, comment_votes, valid_comment_vote_type, audit_logs, chain, creds, votes, manifestos, clock, stamp>>
    /\ Finish(w, [NoResp EXCEPT !.op = "check_credential",
                                !.status = 200, !.kind = "valid",
                                !.nullifier = loc[w].nullifier,
                                !.valid = TRUE,
                                !.used_votes = UsedVotes(loc[w].nullifier),
                                !.can_vote = TRUE, !.existed = TRUE,
                                !.validAtCall = TRUE])

\* round(a / b * 100, 1) for b > 0, in tenths of a percent: the quotient
\* 1000a / b rounded to the nearest integer, a tie to the even one
Percentage(a, b) ==
    LET q == (1000 * a) \div b
        r == (1000 * a) - q * b
    IN  IF 2 * r < b THEN q
        ELSE IF 2 * r > b THEN q + 1
        ELSE IF q % 2 = 0 THEN q ELSE q + 1

\* "total = m.vote_kept + m.vote_broken"
total_votesKeptOnly(m) == m.vote_kept
total_votes(m) == m.vote_kept + m.vote_broken

\* "round(... / total * 100, 1) if total > 0 else 0"
Ratio(part, total) == IF total > 0 THEN Percentage(part, total) ELSE 0

\* get_manifesto_votes: the manifesto query, 404 or the aggregate
get_manifesto_votes(w) ==
    \E manifesto_id \in ManifestoIds :
    /\ pc[w] = "idle"
    /\ UNCHANGED <<leaves, root, registry, comments, comment_votes, valid_comment_vote_type, audit_logs, chain, creds, votes, manifestos, clock, stamp>>
    /\ LET base == [NoResp EXCEPT !.op = "get_manifesto_votes",
                                  !.manifesto_id = manifesto_id]
       IN  IF manifesto_id \notin DOMAIN manifestos
           THEN Finish(w, [base EXCEPT !.status = 404, !.kind = "not_found"])
           ELSE LET m == manifestos[manifesto_id]
                    total == total_votes(m)
                IN  Finish(w, [base EXCEPT
                        !.status = 200, !.kind = "aggregate",
                        !.aggregate =
                            [vote_kept |-> m.vote_kept,
                             vote_broken |-> m.vote_broken,
                             total_votes |-> total,
                             kept_percentage |-> Ratio(m.vote_kept, total),
                             broken_percentage |-> Ratio(m.vote_broken, total)]])

\* the vote hashes a client can hold: returned by a submit_vote that has
\* finished, or stored with a vote row
KnownHashes ==
    {resp[v].vote_hash : v \in {u \in Workers : resp[u].op = "submit_vote"
                                                /\ resp[u].status = 200}}
    \cup {v.vote_hash : v \in votes}

\* GET /api/votes/verify/{vote_hash}: the first vote row with that hash
verify_vote(w) ==
    \E vote_hash \in KnownHashes :
    /\ pc[w] = "idle"
    /\ LET vote == First({v \in votes : v.vote_hash = vote_hash})
           base == [NoResp EXCEPT !.op = "verify_vote", !.status = 200,
                                  !.vote_hash = vote_hash]
       IN  IF vote # {}
           THEN LET v == CHOOSE x \in vote : TRUE
                IN  Finish(w, [base EXCEPT !.valid = TRUE,
                                           !.kind = "verified",
                                           !.manifesto_id = v.manifesto_id,
                                           !.vote_type = v.vote_type])
           ELSE Finish(w, [base EXCEPT !.kind = "not_found"])
    /\ UNCHANGED <<leaves, root, registry, comments, comment_votes, valid_comment_vote_type, audit_logs, chain, creds, votes, manifestos, clock,
                   stamp>>

\* ------------------------------------------------------------------------
\* Consensus classification (status finalization of the platform lifecycle)
\* ------------------------------------------------------------------------
\* "x / total * 100 >= 60" for total > 0.  The float quotient times 100 is
\* 60.0 exactly when x / total is 3/5 and is off 60 by more than the rounding
\* error otherwise, so the comparison is the one of the exact values
ReachesConsensusStrict(x, total) == 100 * x > ConsensusPct * total
ReachesConsensus(x, total) == 100 * x >= ConsensusPct * total

\* the status derived from the aggregate: "if total > 0: if kept_pct >= 60
\* ... elif vote_broken / total * 100 >= 60 ... else disputed", and pending
\* without votes
expected_status(vote_kept, vote_broken) ==
    LET total == vote_kept + vote_broken
    IN  IF total > 0
        THEN IF ReachesConsensus(vote_kept, total) THEN "kept"
             ELSE IF ReachesConsensus(vote_broken, total) THEN "broken"
             ELSE "disputed"
        ELSE "pending"

\* the aggregate of a manifesto is read and classified
StatusFinalization(w) ==
    \E manifesto_id \in DOMAIN manifestos :
    /\ pc[w] = "idle"
    /\ UNCHANGED <<leaves, root, registry, comments, comment_votes, valid_comment_vote_type, audit_logs, chain, creds, votes, manifestos, clock, stamp>>
    /\ LET m == manifestos[manifesto_id]
       IN  Finish(w, [NoResp EXCEPT
               !.op = "status_finalization", !.status = 200,
               !.manifesto_id = manifesto_id,
               !.kind = expected_status(m.vote_kept, m.vote_broken),
               !.aggregate = [vote_kept |-> m.vote_kept,
                              vote_broken |-> m.vote_broken,
                              total_votes |-> m.vote_kept + m.vote_broken]])

\* ------------------------------------------------------------------------
\* Inclusion proofs: get_merkle_proof, _get_sha256_proof
\* ------------------------------------------------------------------------
\* "self._commitment_map.get(commitment, -1)"
find_leaf_index(commitment) ==
    IF commitment \in DOMAIN registry.commitment_map
    THEN registry.commitment_map[commitment]
    ELSE -1

\* a Python list subscript seq[i]: from 0, a negative i counts from the end,
\* and an i outside -len..len-1 raises IndexError
InRange(seq, i) == -Len(seq) <= i /\ i < Len(seq)
PyAt(seq, i) == IF i >= 0 THEN seq[i + 1] ELSE seq[Len(seq) + i + 1]

\* "for level in self.merkle_tree.tree[:-1]": the sibling of idx on each
\* level below the root and the side idx is on (1: idx is the right child)
RECURSIVE WalkLevels(_, _, _, _)
WalkLevels(tree, lv, idx, path) ==
    IF lv >= Len(tree) THEN path
    ELSE LET level == tree[lv]
             is_right == idx % 2 = 1
             sibling_idx == IF is_right THEN idx - 1 ELSE idx + 1
             subscript == sibling_idx < Len(level)
             element == IF subscript /\ InRange(level, sibling_idx)
                        THEN PyAt(level, sibling_idx)
                        ELSE ZeroElement
         IN  IF path.raised \/ (subscript /\ ~InRange(level, sibling_idx))
             THEN [path EXCEPT !.raised = TRUE]
             ELSE WalkLevels(tree, lv + 1, idx \div 2,
                     [pathElements |-> Append(path.pathElements, element),
                      pathIndices |-> Append(path.pathIndices,
                                             IF is_right THEN 1 ELSE 0),
                      raised |-> FALSE])

\* "while len(path_elements) < self.depth: path_elements.append('0' * 64);
\* path_indices.append(0)"
PadToDepth(path, d) ==
    [pathElements |-> path.pathElements \o
         [i \in 1..(d - Len(path.pathElements)) |-> ZeroElement],
     pathIndices |-> path.pathIndices \o
         [i \in 1..(d - Len(path.pathElements)) |-> 0]]

\* the walk of _get_sha256_proof over the levels of the built tree
WalkOf(leaf_index) ==
    WalkLevels(build_tree(leaves).tree, 1, leaf_index,
               [pathElements |-> <<>>, pathIndices |-> <<>>, raised |-> FALSE])

\* _get_sha256_proof(leaf_index) raises IndexError: in a subscript of the
\* walk, or in "self.leaves[leaf_index]" of the returned dict
get_sha256_proof_raises(leaf_index) ==
    WalkOf(leaf_index).raised \/ ~InRange(leaves, leaf_index)

\* the dict _get_sha256_proof(leaf_index) returns when the tree is not empty
\* and no subscript raises
get_sha256_proof(leaf_index) ==
    LET built == build_tree(leaves)
        path == PadToDepth(WalkOf(leaf_index), depth)
    IN  [leaf |-> PyAt(leaves, leaf_index),
         leafIndex |-> leaf_index,
         pathElements |-> path.pathElements,
         pathIndices |-> path.pathIndices,
         root |-> built.root]

\* POST /api/zk/merkle-proof: voter_leaf is compute_voter_leaf(voter_id), the
\* leaf of a voter or hash_node("") for the empty voter id; 404 when the
\* registry does not hold it
get_merkle_proof(w) ==
    \E voter_leaf \in LeafPool \cup {zero_hash} :
    /\ pc[w] = "idle"
    /\ LET leaf_index == find_leaf_index(voter_leaf)
           base == [NoResp EXCEPT !.op = "get_merkle_proof"]
       IN  IF leaf_index = -1
           THEN Finish(w, [base EXCEPT !.status = 404, !.kind = "not_found"])
           ELSE Finish(w, [base EXCEPT !.status = 200, !.kind = "proof",
                                       !.proof = get_sha256_proof(leaf_index)])
    /\ UNCHANGED <<leaves, root, registry, comments, comment_votes, valid_comment_vote_type, audit_logs, chain, creds, votes, manifestos, clock, stamp>>

\* the leaf indices _get_sha256_proof is called with: from below minus the
\* padded width to beyond the padded width
LeafIndices == (0 - next_pow_2(MaxLeaves) - 1)..(next_pow_2(MaxLeaves) + 1)

\* registry._get_sha256_proof(leaf_index) called with any index: None when
\* there is no tree ("if not self.merkle_tree.tree: return None"), else the
\* proof dict unless a subscript raises
call_get_sha256_proof(w) ==
    \E leaf_index \in LeafIndices :
    /\ pc[w] = "idle"
    /\ LET base == [NoResp EXCEPT !.op = "_get_sha256_proof",
                                  !.leaf_index = leaf_index]
       IN  IF build_tree(leaves).tree = <<>>
           THEN Finish(w, [base EXCEPT !.kind = "None"])
           ELSE IF get_sha256_proof_raises(leaf_index)
           THEN Finish(w, [base EXCEPT !.kind = "IndexError"])
           ELSE Finish(w, [base EXCEPT !.kind = "proof",
                                       !.proof = get_sha256_proof(leaf_index)])
    /\ UNCHANGED <<leaves, root, registry, comments, comment_votes, valid_comment_vote_type, audit_logs, chain, creds, votes, manifestos, clock, stamp>>

\* verify(leaf, proof, claimed_root): fold the proof onto the leaf in order,
\* the sibling on the left when the node is a right child, and compare
RECURSIVE Fold(_, _, _, _)
Fold(node, pathElements, pathIndices, k) ==
    IF k > Len(pathElements) THEN node
    ELSE Fold(IF pathIndices[k] = 1
              THEN hash_node(pathElements[k] \o node)
              ELSE hash_node(node \o pathElements[k]),
              pathElements, pathIndices, k + 1)

verify(leaf, proof, claimed_root) ==
    Fold(leaf, proof.pathElements, proof.pathIndices, 1) = claimed_root

\* ------------------------------------------------------------------------
\* The hashing helper and the build of the registry: load_and_build
\* ------------------------------------------------------------------------
\* PoseidonHasher (Node.js circomlibjs): the values of the helper are written
\* as terms of their inputs, apart from every SHA256 digest
PoseidonLeaf(voter_id) == "P(" \o voter_id \o ")"
PoseidonCommitment(secret, voter_id) ==
    "P(" \o secret \o "," \o voter_id \o ")"
RECURSIVE Joined(_)
Joined(L) == IF Len(L) = 0 THEN "" ELSE L[1] \o "," \o Joined(Tail(L))
PoseidonRoot(L) == "PT(" \o Joined(L) \o ")"

\* "for row in reader: ... if not voter_id: continue": the rows with a voter id
RECURSIVE voter_data(_)
voter_data(rows) ==
    IF Len(rows) = 0 THEN <<>>
    ELSE IF rows[1] = "" THEN voter_data(Tail(rows))
    ELSE <<rows[1]>> \o voter_data(Tail(rows))

\* "x[i], x[j] = x[j], x[i]" (indices from 0)
SwapOverwrite(x, i, j) == [x EXCEPT ![i + 1] = x[j + 1]]
Swap(x, i, j) == [x EXCEPT ![i + 1] = x[j + 1], ![j + 1] = x[i + 1]]

\* random.seed(seed); the draw "randbelow(i + 1)" of the step i of the
\* shuffle: the seeds 0..MaxVoters!-1 give every sequence of draws once
RECURSIVE Factorial(_)
Factorial(n) == IF n <= 1 THEN 1 ELSE n * Factorial(n - 1)
Seeds == 0..(Factorial(MaxVoters) - 1)
randbelow(seed, i) == (seed \div Factorial(i)) % (i + 1)

\* random.shuffle(x): "for i in reversed(range(1, len(x))): j = randbelow(i+1);
\* x[i], x[j] = x[j], x[i]"
RECURSIVE ShuffleFrom(_, _, _)
ShuffleFrom(x, i, seed) ==
    IF i < 1 THEN x
    ELSE ShuffleFrom(Swap(x, i, randbelow(seed, i)), i - 1, seed)
shuffle(seed, x) == ShuffleFrom(x, Len(x) - 1, seed)

\* the object at the start of VoterRegistry.__init__: merkle_tree is None
NewRegistry(use_poseidon) ==
    [pc |-> "new", commitments |-> <<>>, voter_count |-> 0,
     shuffle_seed |-> -1, use_poseidon |-> use_poseidon,
     commitment_map |-> <<>>, warned |-> FALSE]

RegistryStep(from, to) ==
    /\ registry.pc = from
    /\ UNCHANGED <<comments, comment_votes, valid_comment_vote_type, audit_logs, chain, creds, votes, manifestos, clock, stamp, pc,
                 loc, resp>>

\* load_and_build, the rows read and their commitments computed: Poseidon
\* leaves in one batch, or SHA256 leaves when use_poseidon is off or the
\* batch fails ("[Warning] Batch Poseidon failed, using SHA256")
lb_commitments ==
    \E rows \in VoterLists : \E helper_ok \in BOOLEAN :
    /\ RegistryStep("new", "count")
    /\ LET ids == voter_data(rows)
           strong == registry.use_poseidon /\ helper_ok
       IN  registry' =
             [registry EXCEPT
                !.pc = "count",
                !.commitments =
                    [i \in 1..Len(ids) |->
                        IF strong THEN PoseidonLeaf(ids[i])
                        ELSE hash_node(ids[i])],
                !.warned = registry.use_poseidon /\ ~helper_ok]
    /\ UNCHANGED <<leaves, root>>

\* "self.voter_count = len(commitments)"
lb_voter_count ==
    /\ RegistryStep("count", "shuffle")
    /\ registry' = [registry EXCEPT !.pc = "shuffle",
                        !.voter_count = Len(registry.commitments)]
    /\ UNCHANGED <<leaves, root>>

\* "self.shuffle_seed = secrets.token_hex(32); random.seed(self.shuffle_seed);
\* random.shuffle(commitments)"
lb_shuffle ==
    \E seed \in Seeds :
    /\ RegistryStep("shuffle", "leaves")
    /\ registry' = [registry EXCEPT !.pc = "leaves", !.shuffle_seed = seed,
                        !.commitments = shuffle(seed, registry.commitments)]
    /\ UNCHANGED <<leaves, root>>

\* "self.leaves = commitments"
lb_leaves ==
    /\ RegistryStep("leaves", "map")
    /\ leaves' = registry.commitments
    /\ registry' = [registry EXCEPT !.pc = "map"]
    /\ UNCHANGED root

\* "for idx, comm in enumerate(self.leaves): self._commitment_map[comm] = idx"
lb_commitment_map ==
    /\ RegistryStep("map", "tree")
    /\ registry' = [registry EXCEPT !.pc = "tree",
                        !.commitment_map = MapLeaves(registry.commitment_map,
                                                     leaves)]
    /\ UNCHANGED <<leaves, root>>

\* "self.merkle_tree = MerkleTree(self.leaves, ...)": build_tree, with the
\* Poseidon root of the helper, or the SHA256 tree when use_poseidon is off or
\* the helper fails ("[Warning] Poseidon failed, falling back to SHA256");
\* load_and_build returns
lb_merkle_tree ==
    \E helper_ok \in BOOLEAN :
    /\ RegistryStep("tree", "built")
    /\ LET strong == registry.use_poseidon /\ helper_ok /\ Len(leaves) > 0
       IN  /\ root' = IF strong THEN PoseidonRoot(leaves)
                      ELSE build_tree(leaves).root
           /\ registry' =
                 [registry EXCEPT
                    !.pc = "built", !.commitments = <<>>,
                    !.warned = registry.warned
                        \/ (registry.use_poseidon /\ Len(leaves) > 0
                            /\ ~helper_ok)]
    /\ UNCHANGED leaves

\* "else: self.merkle_tree = MerkleTree([], ...)": there is no voter list at
\* csv_path, the registry stays empty
no_voter_list ==
    /\ RegistryStep("new", "built")
    /\ root' = build_tree(<<>>).root
    /\ registry' = [registry EXCEPT !.pc = "built"]
    /\ UNCHANGED leaves

\* "registry = VoterRegistry(CSV_PATH, use_poseidon=USE_POSEIDON)": the
\* constructor has returned, the module global is bound and main.py, which
\* imports it, starts to serve
publish ==
    /\ RegistryStep("built", "published")
    /\ registry' = [registry EXCEPT !.pc = "published"]
    /\ UNCHANGED <<leaves, root>>

\* the handlers see the registry of the imported module
PublishedEarly == TRUE
Published == registry.pc = "published"

\* GET /api/zk/leaves: root, leaves, voter_count and shuffle_seed of the
\* registry, read in one go (the handler has no await)
get_anonymity_set(w) ==
    /\ pc[w] = "idle"
    /\ Published
    /\ Finish(w, [NoResp EXCEPT
                    !.op = "get_anonymity_set", !.status = 200,
                    !.aggregate = [root |-> root, leaves |-> leaves,
                                   total_voters |-> registry.voter_count,
                                   shuffle_seed |-> registry.shuffle_seed]])
    /\ UNCHANGED <<leaves, root, registry, comments, comment_votes, valid_comment_vote_type, audit_logs, chain, creds, votes, manifestos, clock,
                   stamp>>

\* PoseidonHasher.get_merkle_proof(leaf_index, leaves, depth): the proof the
\* helper computes from the leaves it is given, its root the helper's root of
\* these leaves
PoseidonProof(leaf_index, L) ==
    [leaf |-> L[leaf_index + 1], leafIndex |-> leaf_index,
     pathElements |-> <<>>, pathIndices |-> <<>>, root |-> PoseidonRoot(L)]

\* self.merkle_tree.tree: the levels of the SHA256 tree, and [] when the
\* helper built the root or there are no leaves
merkle_tree_tree ==
    IF root = build_tree(leaves).root THEN build_tree(leaves).tree ELSE <<>>

\* VoterRegistry.get_merkle_proof(commitment): None for a commitment without
\* an index; with use_poseidon the helper's proof, and when the helper call
\* raises ("[Warning] Poseidon proof generation failed") or use_poseidon is
\* off the proof of _get_sha256_proof, which is None without tree levels
registry_get_merkle_proof(w) ==
    \E commitment \in LeavesOf(leaves) \cup {ForeignLeaf} :
    \E helper_ok \in BOOLEAN :
    /\ pc[w] = "idle"
    /\ Published
    /\ LET leaf_index == find_leaf_index(commitment)
           base == [NoResp EXCEPT !.op = "VoterRegistry.get_merkle_proof",
                                  !.asked = commitment,
                                  !.leaf_index = leaf_index]
       IN  IF leaf_index = -1
           THEN Finish(w, [base EXCEPT !.kind = "None"])
           ELSE IF registry.use_poseidon /\ helper_ok
           THEN Finish(w, [base EXCEPT !.kind = "proof",
                              !.proof = PoseidonProof(leaf_index, leaves)])
           ELSE IF merkle_tree_tree = <<>>
           THEN Finish(w, [base EXCEPT !.kind = "None"])
           ELSE Finish(w, [base EXCEPT !.kind = "proof",
                              !.proof = [get_sha256_proof(leaf_index)
                                            EXCEPT !.root = root]])
    /\ UNCHANGED <<leaves, root, registry, comments, comment_votes, valid_comment_vote_type, audit_logs, chain, creds, votes,
                   manifestos, clock, stamp>>

\* the secrets a commitment is computed from
Secrets == {"s1", "s2"}

\* compute_voter_leaf(voter_id): the Poseidon leaf of the helper; the SHA256
\* digest when use_poseidon is off, and also when the helper call raises
\* ("except Exception: pass")
compute_voter_leaf(w) ==
    \E voter_id \in VoterIds : \E helper_ok \in BOOLEAN :
    /\ pc[w] = "idle"
    /\ Published
    /\ Finish(w, [NoResp EXCEPT
                    !.op = "compute_voter_leaf", !.asked = <<voter_id>>,
                    !.leaf = IF registry.use_poseidon /\ helper_ok
                             THEN PoseidonLeaf(voter_id)
                             ELSE hash_node(voter_id)])
    /\ UNCHANGED <<leaves, root, registry, comments, comment_votes, valid_comment_vote_type, audit_logs, chain, creds, votes, manifestos, clock,
                   stamp>>

\* compute_commitment(secret, voter_id): as compute_voter_leaf, over
\* "secret + voter_id" on the SHA256 path
compute_commitment(w) ==
    \E secret \in Secrets : \E voter_id \in VoterIds :
    \E helper_ok \in BOOLEAN :
    /\ pc[w] = "idle"
    /\ Published
    /\ Finish(w, [NoResp EXCEPT
                    !.op = "compute_commitment",
                    !.asked = <<secret, voter_id>>,
                    !.leaf = IF registry.use_poseidon /\ helper_ok
                             THEN PoseidonCommitment(secret, voter_id)
                             ELSE hash_node(secret \o voter_id)])
    /\ UNCHANGED <<leaves, root, registry, comments, comment_votes, valid_comment_vote_type, audit_logs, chain, creds, votes, manifestos, clock,
                   stamp>>

\* ------------------------------------------------------------------------
\* Specifications
\* ------------------------------------------------------------------------
\* the credential registry
Issuing(w) ==
    \/ zk_login(w)
    \/ zk_login_commit(w)
    \/ verify_zk_proof(w)
    \/ verify_zk_proof_commit(w)
    \/ verify_real_zk_proof(w)
    \/ verify_real_zk_proof_verify(w)
    \/ verify_real_zk_proof_commit(w)
    \/ Return(w)

\* the vote ledger
Voting(w) ==
    \/ submit_vote(w)
    \/ submit_vote_existing(w)
    \/ submit_vote_commit(w)
    \/ Return(w)

OthersIdle(w) == \A v \in Workers \ {w} : pc[v] = "idle"

\* The credential registry under concurrent requests: the issuing handlers
\* write zk_credentials only and no other handler writes it
IssueNext == load_and_build \/ Revoke \/ \E w \in Workers : Issuing(w)

IssueSpec == Init /\ [][IssueNext]_vars

\* The vote ledger under concurrent requests, started after two nullifiers
\* were issued their credentials (a state IssueSpec reaches: n1 by zk_login
\* with a client credential, n2 with a generated one)
VoteInit ==
    /\ leaves = RegisteredVoters
    /\ root = R1
    /\ registry = PublishedRegistry(leaves)
    /\ audit_logs = <<>>
    /\ chain = EmptyChain
    /\ comments = <<>>
    /\ comment_votes = {}
    /\ valid_comment_vote_type = ModelVoteTypes
    /\ creds = {[id |-> 1, nullifier_hash |-> "n1",
                 credential_hash |-> "cA", is_valid |-> TRUE],
                [id |-> 2, nullifier_hash |-> "n2",
                 credential_hash |-> "tok2", is_valid |-> TRUE]}
    /\ votes = {}
    /\ manifestos =
         (1 :> [vote_kept |-> 0, vote_broken |-> 0, grace_period_end |-> 1]) @@
         (2 :> [vote_kept |-> SeedVoteKept, vote_broken |-> SeedVoteBroken,
                grace_period_end |-> 0])
    /\ clock = 0
    /\ stamp = 0
    /\ pc = [w \in Workers |-> "idle"]
    /\ loc = [w \in Workers |-> IdleLoc]
    /\ resp = [w \in Workers |-> NoResp]

VoteNext == Tick \/ Revoke \/ \E w \in Workers : Voting(w)

VoteSpec == VoteInit /\ [][VoteNext]_vars

\* The vote ledger with one request at a time: a handler runs from its first
\* query to its response before the next request is taken
VoteSeqNext ==
    Tick \/ Revoke \/ \E w \in Workers : OthersIdle(w) /\ Voting(w)

VoteSeqSpec == VoteInit /\ [][VoteSeqNext]_vars

\* the reads of the ledger
Reading(w) ==
    \/ check_credential(w)
    \/ check_credential_votes(w)
    \/ get_manifesto_votes(w)
    \/ Return(w)

\* The reads of the ledger while votes are submitted at the same time: one
\* worker serves the votes, the other one the reads, in any interleaving of
\* their steps
ReadNext == Revoke \/ Voting("w1") \/ Reading("w2")

\* the ledger of VoteInit once the last grace period is over (a state
\* VoteSpec reaches by Tick): every manifesto is open for votes
ReadInit ==
    /\ leaves = RegisteredVoters
    /\ root = R1
    /\ registry = PublishedRegistry(leaves)
    /\ audit_logs = <<>>
    /\ chain = EmptyChain
    /\ comments = <<>>
    /\ comment_votes = {}
    /\ valid_comment_vote_type = ModelVoteTypes
    /\ creds = {[id |-> 1, nullifier_hash |-> "n1",
                 credential_hash |-> "cA", is_valid |-> TRUE],
                [id |-> 2, nullifier_hash |-> "n2",
                 credential_hash |-> "tok2", is_valid |-> TRUE]}
    /\ votes = {}
    /\ manifestos =
         (1 :> [vote_kept |-> 0, vote_broken |-> 0, grace_period_end |-> 1]) @@
         (2 :> [vote_kept |-> SeedVoteKept, vote_broken |-> SeedVoteBroken,
                grace_period_end |-> 0])
    /\ clock = 1
    /\ stamp = 0
    /\ pc = [w \in Workers |-> "idle"]
    /\ loc = [w \in Workers |-> IdleLoc]
    /\ resp = [w \in Workers |-> NoResp]

ReadSpec == ReadInit /\ [][ReadNext]_vars

\* The classification of manifestos whose votes are in: the first manifesto
\* ends its voting with any counters up to MaxTally, the second one with the
\* seeded counters
ConsensusInit ==
    /\ leaves = RegisteredVoters
    /\ root = R1
    /\ registry = PublishedRegistry(leaves)
    /\ audit_logs = <<>>
    /\ chain = EmptyChain
    /\ comments = <<>>
    /\ comment_votes = {}
    /\ valid_comment_vote_type = ModelVoteTypes
    /\ creds = {}
    /\ votes = {}
    /\ \E k \in 0..MaxTally : \E b \in 0..MaxTally :
          manifestos =
             (1 :> [vote_kept |-> k, vote_broken |-> b, grace_period_end |-> 1]) @@
             (2 :> [vote_kept |-> SeedVoteKept, vote_broken |-> SeedVoteBroken,
                    grace_period_end |-> 0])
    /\ clock = 1
    /\ stamp = 0
    /\ pc = [w \in Workers |-> "idle"]
    /\ loc = [w \in Workers |-> IdleLoc]
    /\ resp = [w \in Workers |-> NoResp]

ConsensusNext == \E w \in Workers : StatusFinalization(w) \/ Return(w)

ConsensusSpec == ConsensusInit /\ [][ConsensusNext]_vars

\* The registry of any voter list and the inclusion proofs it hands out
MerkleInit ==
    /\ leaves \in LeafLists
    /\ root = build_tree(leaves).root
    /\ registry = PublishedRegistry(leaves)
    /\ audit_logs = <<>>
    /\ chain = EmptyChain
    /\ comments = <<>>
    /\ comment_votes = {}
    /\ valid_comment_vote_type = ModelVoteTypes
    /\ creds = {}
    /\ votes = {}
    /\ manifestos =
         (1 :> [vote_kept |-> 0, vote_broken |-> 0, grace_period_end |-> 1]) @@
         (2 :> [vote_kept |-> SeedVoteKept, vote_broken |-> SeedVoteBroken,
                grace_period_end |-> 0])
    /\ clock = 0
    /\ stamp = 0
    /\ pc = [w \in Workers |-> "idle"]
    /\ loc = [w \in Workers |-> IdleLoc]
    /\ resp = [w \in Workers |-> NoResp]

MerkleNext == \E w \in Workers : get_merkle_proof(w) \/ Return(w)

MerkleSpec == MerkleInit /\ [][MerkleNext]_vars

\* The registry of any voter list, the empty one included, and direct calls
\* of its proof function with any index
RegistryInit ==
    /\ leaves \in LeafLists \cup {<<>>}
    /\ root = build_tree(leaves).root
    /\ registry = PublishedRegistry(leaves)
    /\ audit_logs = <<>>
    /\ chain = EmptyChain
    /\ comments = <<>>
    /\ comment_votes = {}
    /\ valid_comment_vote_type = ModelVoteTypes
    /\ creds = {}
    /\ votes = {}
    /\ manifestos =
         (1 :> [vote_kept |-> 0, vote_broken |-> 0, grace_period_end |-> 1]) @@
         (2 :> [vote_kept |-> SeedVoteKept, vote_broken |-> SeedVoteBroken,
                grace_period_end |-> 0])
    /\ clock = 0
    /\ stamp = 0
    /\ pc = [w \in Workers |-> "idle"]
    /\ loc = [w \in Workers |-> IdleLoc]
    /\ resp = [w \in Workers |-> NoResp]

ProofIndexNext == call_get_sha256_proof("w1") \/ Return("w1")

ProofIndexSpec == RegistryInit /\ [][ProofIndexNext]_vars

\* The registry rebuilt from one voter list after the other
BuildNext == load_and_build_from(LeafLists \cup {<<>>})

BuildSpec == RegistryInit /\ [][BuildNext]_vars

\* The start of the server: the registry object is constructed from a voter
\* list step by step, then published, and one worker serves the anonymity set
StartupInit ==
    /\ leaves = <<>>
    /\ root = None
    /\ \E use_poseidon \in BOOLEAN : registry = NewRegistry(use_poseidon)
    /\ audit_logs = <<>>
    /\ chain = EmptyChain
    /\ comments = <<>>
    /\ comment_votes = {}
    /\ valid_comment_vote_type = ModelVoteTypes
    /\ creds = {}
    /\ votes = {}
    /\ manifestos =
         (1 :> [vote_kept |-> 0, vote_broken |-> 0, grace_period_end |-> 1]) @@
         (2 :> [vote_kept |-> SeedVoteKept, vote_broken |-> SeedVoteBroken,
                grace_period_end |-> 0])
    /\ clock = 0
    /\ stamp = 0
    /\ pc = [w \in Workers |-> "idle"]
    /\ loc = [w \in Workers |-> IdleLoc]
    /\ resp = [w \in Workers |-> NoResp]

StartupNext ==
    \/ lb_commitments \/ lb_voter_count \/ lb_shuffle \/ lb_leaves
    \/ lb_commitment_map \/ lb_merkle_tree \/ no_voter_list \/ publish
    \/ get_anonymity_set("w1") \/ Return("w1")

StartupSpec == StartupInit /\ [][StartupNext]_vars

\* The registry constructed in either hashing mode, and leaves and
\* commitments computed by both workers once it serves
Hashing(w) == compute_voter_leaf(w) \/ compute_commitment(w) \/ Return(w)

HashNext ==
    \/ lb_commitments \/ lb_voter_count \/ lb_shuffle \/ lb_leaves
    \/ lb_commitment_map \/ lb_merkle_tree \/ no_voter_list \/ publish
    \/ \E w \in Workers : Hashing(w)

HashSpec == StartupInit /\ [][HashNext]_vars

\* Votes and the verification of their receipts: one worker serves the
\* votes, the other one verifies the hashes handed out so far
ReceiptNext == Voting("w1") \/ verify_vote("w2") \/ Return("w2")

ReceiptSpec == ReadInit /\ [][ReceiptNext]_vars

\* ------------------------------------------------------------------------
\* Manifesto creation and the audit log: create_manifesto,
\* submit_signed_manifesto
\* ------------------------------------------------------------------------
\* "def generate_block_hash(data, prev_hash)":
\* '0x' + sha256(f"{data}:{prev_hash}".encode()).hexdigest()
generate_block_hash(data, prev_hash) ==
    "0x(" \o data \o ":" \o prev_hash \o ")"

\* the descriptions a request carries, and compute_manifesto_hash of one
Descriptions == {"d1"}
compute_manifesto_hash(description) == "mh(" \o description \o ")"
\* "promise_hash=generate_hash(f'{title}:{description}:{politician_id}')"
promise_hash(description, politician_id) ==
    "gh(" \o description \o ":" \o ToString(politician_id) \o ")"
PoliticianIds == {1}

\* the AuditLog row of a created manifesto; its id is the next of the
\* autoincrement sequence
AuditRow(log, manifesto_id, action, prev_hash, blockchain_confirmed) ==
    [id |-> Len(log) + 1, manifesto_id |-> manifesto_id, action |-> action,
     block_hash |-> generate_block_hash(ToString(manifesto_id), prev_hash),
     prev_hash |-> prev_hash, blockchain_confirmed |-> blockchain_confirmed]

\* seed_audit_logs: the genesis block, then one block per seeded manifesto
\* (all of them signed), each on the block_hash of the one before
GenesisBlock ==
    [id |-> 1, manifesto_id |-> 0, action |-> "GENESIS_BLOCK",
     block_hash |-> generate_block_hash("GENESIS", "0x0"),
     prev_hash |-> "0x0000000000000000000000000000000000000000000000000000000000000000",
     blockchain_confirmed |-> FALSE]

RECURSIVE SeedBlocks(_, _)
SeedBlocks(log, ms) ==
    IF ms = <<>> THEN log
    ELSE SeedBlocks(Append(log, AuditRow(log, Head(ms),
                                         "SIGNED_MANIFESTO_CREATED",
                                         log[Len(log)].block_hash, TRUE)),
                    Tail(ms))

seed_audit_logs(ms) == SeedBlocks(<<GenesisBlock>>, ms)

\* seed_manifestos: signed manifestos with a made-up transaction
\* ("Fake Blockchain confirmation")
SeededManifestos == <<1>>
SeededManifesto(m) ==
    [vote_kept |-> 0, vote_broken |-> 0, grace_period_end |-> 1,
     politician_id |-> 1,
     promise_hash |-> compute_manifesto_hash("seed" \o ToString(m)),
     signed |-> TRUE, blockchain_confirmed |-> TRUE,
     blockchain_tx |-> "fake_tx"]

\* "last_audit = db.query(AuditLog).order_by(AuditLog.id.desc()).first()
\*  prev_hash = last_audit.block_hash if last_audit else '0x0'"
last_prev_hash ==
    IF audit_logs = <<>> THEN "0x0"
    ELSE audit_logs[Len(audit_logs)].block_hash

\* the id the manifestos sequence gives the next row
NextManifestoId ==
    IF DOMAIN manifestos = {} THEN 1
    ELSE 1 + CHOOSE m \in DOMAIN manifestos :
                 \A n \in DOMAIN manifestos : n <= m

\* the local variables of a manifesto handler
ManifestoLoc(op, politician_id, description) ==
    [op |-> op, politician_id |-> politician_id, description |-> description,
     new_id |-> 0, prev_hash |-> None, connected |-> FALSE,
     submit_success |-> FALSE, blockchain_confirmed |-> FALSE,
     blockchain_tx |-> None]

\* a manifesto handler is accepted while the audit log has room for its
\* entry and those of the handlers that are running
ManifestoPcs ==
    {"cm_query", "cm_commit", "ssm_register", "ssm_submit", "ssm_query",
     "ssm_commit"}
AuditRoom ==
    Len(audit_logs) + Cardinality({w \in Workers : pc[w] \in ManifestoPcs})
        < MaxBlocks

\* POST /api/manifestos, to the first commit: the politician checks (404, or
\* 403 of an unverified politician), then "db.add(new_manifesto); db.commit()"
cm_insert(w) ==
    \E politician_id \in PoliticianIds, description \in Descriptions,
       politician \in {"verified", "missing", "pending"} :
    /\ pc[w] = "idle"
    /\ AuditRoom
    /\ LET base == [NoResp EXCEPT !.op = "create_manifesto"]
       IN  IF politician = "missing"
           THEN /\ Finish(w, [base EXCEPT !.status = 404])
                /\ UNCHANGED manifestos
           ELSE IF politician = "pending"
           THEN /\ Finish(w, [base EXCEPT !.status = 403])
                /\ UNCHANGED manifestos
           ELSE /\ manifestos' = manifestos @@
                     (NextManifestoId :>
                        [vote_kept |-> 0, vote_broken |-> 0,
                         grace_period_end |-> 1,
                         politician_id |-> politician_id,
                         promise_hash |-> promise_hash(description,
                                                       politician_id),
                         signed |-> FALSE, blockchain_confirmed |-> FALSE,
                         blockchain_tx |-> None])
                /\ pc' = [pc EXCEPT ![w] = "cm_query"]
                /\ loc' = [loc EXCEPT ![w] =
                     [ManifestoLoc("create_manifesto", politician_id,
                                   description)
                        EXCEPT !.new_id = NextManifestoId]]
                /\ UNCHANGED resp
    /\ UNCHANGED <<leaves, root, registry, comments, comment_votes, valid_comment_vote_type, audit_logs, chain, creds, votes,
                   clock, stamp>>

\* "last_audit = db.query(AuditLog).order_by(AuditLog.id.desc()).first()"
cm_query(w) ==
    /\ pc[w] = "cm_query"
    /\ pc' = [pc EXCEPT ![w] = "cm_commit"]
    /\ loc' = [loc EXCEPT ![w].prev_hash = last_prev_hash]
    /\ UNCHANGED <<leaves, root, registry, comments, comment_votes, valid_comment_vote_type, audit_logs, chain, creds, votes,
                   manifestos, clock, stamp, resp>>

\* "audit = AuditLog(..., prev_hash=prev_hash); db.add(audit); db.commit()"
cm_commit(w) ==
    /\ pc[w] = "cm_commit"
    /\ audit_logs' = Append(audit_logs,
                            AuditRow(audit_logs, loc[w].new_id,
                                     "PROMISE_CREATED", loc[w].prev_hash,
                                     FALSE))
    /\ Finish(w, [NoResp EXCEPT !.op = "create_manifesto", !.status = 200,
                                !.stored = TRUE,
                                !.manifesto_id = loc[w].new_id])
    /\ UNCHANGED <<leaves, root, registry, comments, comment_votes, valid_comment_vote_type, chain, creds, votes, manifestos,
                   clock, stamp>>

create_manifesto(w) == cm_insert(w) \/ cm_query(w) \/ cm_commit(w)

\* POST /api/manifestos/submit-signed, to the blockchain phase: the politician
\* checks (404, 400, 400), "request.manifesto_hash != expected_hash" (400),
\* verify_signature (401), then "if blockchain.is_connected()"
ssm_verify(w) ==
    \E politician_id \in PoliticianIds, description \in Descriptions,
       manifesto_hash \in {compute_manifesto_hash(d) : d \in Descriptions}
                          \cup {"0xbad"},
       politician \in {"ok", "missing", "no_wallet", "key_revoked"},
       sig_valid \in BOOLEAN, is_connected \in BOOLEAN :
    /\ pc[w] = "idle"
    /\ AuditRoom
    /\ LET base == [NoResp EXCEPT !.op = "submit_signed_manifesto"]
       IN  IF politician = "missing"
           THEN Finish(w, [base EXCEPT !.status = 404])
           ELSE IF politician \in {"no_wallet", "key_revoked"}
           THEN Finish(w, [base EXCEPT !.status = 400])
           ELSE IF manifesto_hash # compute_manifesto_hash(description)
           THEN Finish(w, [base EXCEPT !.status = 400,
                                       !.kind = "hash_mismatch"])
           ELSE IF ~sig_valid
           THEN Finish(w, [base EXCEPT !.status = 401])
           ELSE /\ pc' = [pc EXCEPT ![w] = IF is_connected
                                           THEN "ssm_register"
                                           ELSE "ssm_query"]
                /\ loc' = [loc EXCEPT ![w] =
                     [ManifestoLoc("submit_signed_manifesto", politician_id,
                                   description)
                        EXCEPT !.connected = is_connected]]
                /\ UNCHANGED resp
    /\ UNCHANGED <<leaves, root, registry, comments, comment_votes, valid_comment_vote_type, audit_logs, chain, creds, votes,
                   manifestos, clock, stamp>>

\* "if not reg_result.get('success')", "if not submit_result.get('success')":
\* raise HTTPException(500)
WriteFailedIgnored(result) == FALSE
WriteFailed(result) == ~result

\* "onchain_politician = blockchain.get_politician(...)
\*  if not onchain_politician or not onchain_politician.get('registered')":
\* get_politician returns the keys wallet, manifesto_count and is_registered,
\* so the condition holds of every politician and register_politician is
\* called; the contract accepts or rejects the transaction
ssm_register(w) ==
    \E success \in BOOLEAN :
    /\ pc[w] = "ssm_register"
    /\ chain' = IF success
                THEN [chain EXCEPT !.politicians =
                                      @ \cup {loc[w].politician_id}]
                ELSE chain
    /\ IF WriteFailed(success)
       THEN Finish(w, [NoResp EXCEPT !.op = "submit_signed_manifesto",
                                     !.status = 500,
                                     !.kind = "register_failed"])
       ELSE /\ pc' = [pc EXCEPT ![w] = "ssm_submit"]
            /\ UNCHANGED <<loc, resp>>
    /\ UNCHANGED <<leaves, root, registry, comments, comment_votes, valid_comment_vote_type, audit_logs, creds, votes,
                   manifestos, clock, stamp>>

\* the transaction of submit_manifesto(politician_id, content_hash)
OnChain(politician_id, content_hash) ==
    [politician_id |-> politician_id, content_hash |-> content_hash,
     tx_hash |-> "tx(" \o ToString(politician_id) \o ":" \o content_hash
                 \o ")"]

\* BlockchainService.submit_manifesto: the transaction is mined and confirmed
\* (success), rejected or never sent (failure, nothing on the chain), or sent
\* with the wait for its receipt failing (failure, the transaction mined)
SubmitOutcomes ==
    {[success |-> TRUE, mined |-> TRUE], [success |-> FALSE, mined |-> FALSE],
     [success |-> FALSE, mined |-> TRUE]}

\* "submit_result = blockchain.submit_manifesto(...)": on failure 500
\* "Manifesto NOT stored", else "blockchain_confirmed = True"
ssm_submit(w) ==
    \E outcome \in SubmitOutcomes :
    /\ pc[w] = "ssm_submit"
    /\ LET tx == OnChain(loc[w].politician_id,
                         compute_manifesto_hash(loc[w].description))
       IN  /\ chain' = IF outcome.mined
                       THEN [chain EXCEPT !.manifestos = @ \cup {tx}]
                       ELSE chain
           /\ IF WriteFailed(outcome.success)
              THEN Finish(w, [NoResp EXCEPT
                                 !.op = "submit_signed_manifesto",
                                 !.status = 500, !.kind = "submit_failed"])
              ELSE /\ pc' = [pc EXCEPT ![w] = "ssm_query"]
                   /\ loc' = [loc EXCEPT ![w].submit_success = outcome.success,
                                         ![w].blockchain_confirmed = TRUE,
                                         ![w].blockchain_tx = tx.tx_hash]
                   /\ UNCHANGED resp
    /\ UNCHANGED <<leaves, root, registry, comments, comment_votes, valid_comment_vote_type, audit_logs, creds, votes,
                   manifestos, clock, stamp>>

\* "last_audit = db.query(AuditLog).order_by(AuditLog.id.desc()).first()"
ssm_query(w) ==
    /\ pc[w] = "ssm_query"
    /\ pc' = [pc EXCEPT ![w] = "ssm_commit"]
    /\ loc' = [loc EXCEPT ![w].prev_hash = last_prev_hash]
    /\ UNCHANGED <<leaves, root, registry, comments, comment_votes, valid_comment_vote_type, audit_logs, chain, creds, votes,
                   manifestos, clock, stamp, resp>>

\* "db.add(new_manifesto); db.flush(); audit = AuditLog(...); db.add(audit);
\*  db.commit()": the manifesto row and its audit entry in one transaction
ssm_commit(w) ==
    /\ pc[w] = "ssm_commit"
    /\ manifestos' = manifestos @@
          (NextManifestoId :>
             [vote_kept |-> 0, vote_broken |-> 0,
              grace_period_end |-> clock + 1,
              politician_id |-> loc[w].politician_id,
              promise_hash |-> compute_manifesto_hash(loc[w].description),
              signed |-> TRUE,
              blockchain_confirmed |-> loc[w].blockchain_confirmed,
              blockchain_tx |-> loc[w].blockchain_tx])
    /\ audit_logs' = Append(audit_logs,
                            AuditRow(audit_logs, NextManifestoId,
                                     "SIGNED_MANIFESTO_CREATED",
                                     loc[w].prev_hash,
                                     loc[w].blockchain_confirmed))
    /\ Finish(w, [NoResp EXCEPT !.op = "submit_signed_manifesto",
                                !.status = 200, !.stored = TRUE,
                                !.manifesto_id = NextManifestoId,
                                !.valid = loc[w].blockchain_confirmed])
    /\ UNCHANGED <<leaves, root, registry, comments, comment_votes, valid_comment_vote_type, chain, creds, votes, clock, stamp>>

submit_signed_manifesto(w) ==
    \/ ssm_verify(w) \/ ssm_register(w) \/ ssm_submit(w)
    \/ ssm_query(w) \/ ssm_commit(w)

\* The manifesto handlers under concurrent requests, on an empty or a seeded
\* database
ManifestoInit ==
    /\ leaves = RegisteredVoters
    /\ root = R1
    /\ registry = PublishedRegistry(leaves)
    /\ \E seeded \in BOOLEAN :
          IF seeded
          THEN /\ manifestos = [m \in 1..Len(SeededManifestos) |->
                                   SeededManifesto(m)]
               /\ audit_logs = seed_audit_logs(SeededManifestos)
          ELSE /\ manifestos = <<>>
               /\ audit_logs = <<>>
    /\ chain = EmptyChain
    /\ comments = <<>>
    /\ comment_votes = {}
    /\ valid_comment_vote_type = ModelVoteTypes
    /\ creds = {}
    /\ votes = {}
    /\ clock = 0
    /\ stamp = 0
    /\ pc = [w \in Workers |-> "idle"]
    /\ loc = [w \in Workers |-> IdleLoc]
    /\ resp = [w \in Workers |-> NoResp]

ManifestoNext ==
    \E w \in Workers :
        create_manifesto(w) \/ submit_signed_manifesto(w) \/ Return(w)

ManifestoSpec == ManifestoInit /\ [][ManifestoNext]_vars

\* the same handlers with one request at a time
ManifestoSeqNext ==
    \E w \in Workers :
        OthersIdle(w) /\ (create_manifesto(w) \/ submit_signed_manifesto(w)
                          \/ Return(w))

ManifestoSeqSpec == ManifestoInit /\ [][ManifestoSeqNext]_vars

\* The proof verifier called with every outcome of its process
VerifierNext ==
    \E w \in Workers : call_verify_groth16_proof_nodejs(w) \/ Return(w)

VerifierSpec == Init /\ [][VerifierNext]_vars

\* The registry constructed in either hashing mode, then asked for the
\* inclusion proofs of commitments
RegistryProofNext ==
    \/ lb_commitments \/ lb_voter_count \/ lb_shuffle \/ lb_leaves
    \/ lb_commitment_map \/ lb_merkle_tree \/ no_voter_list \/ publish
    \/ registry_get_merkle_proof("w1") \/ Return("w1")

RegistryProofSpec == StartupInit /\ [][RegistryProofNext]_vars

\* ------------------------------------------------------------------------
\* Comment votes: vote_comment
\* ------------------------------------------------------------------------
\* "if comment.flag_count >= 5 and comment.state == 'active'"
FlagThreshold == 5
DOWNVOTE_DELETE_THRESHOLD == 5
\* "total_votes >= 3 and downvote_ratio >= DOWNVOTE_RATIO_THRESHOLD" (0.7)
RatioMinVotes == 3
RatioTenths == 7
\* "if total_votes >= 5 and comment.upvotes / max(1, total_votes) >= 0.7"
PromotionMinVotes == 5

CommentIds == {1}
\* the nullifiers that hold a valid credential
CommentNullifiers == {"n1", "n2", "n3", "n4", "n5"}
\* the flag requests: by every credential holder and by "n0", who holds none
FlagRequests == (CommentNullifiers \cup {"n0"}) \X {"flag"}
\* the requests of the clients: the flags, and up and down votes by three of
\* the credential holders
CommentRequests == FlagRequests \cup ({"n1", "n2", "n3"} \X {"up", "down"})

\* create_comment: "upvotes=0, downvotes=0, flag_count=0,
\* state=analysis['state'], auto_flag_reason=analysis['auto_flag_reason']"
NewComment(state) ==
    [upvotes |-> 0, downvotes |-> 0, flag_count |-> 0, state |-> state,
     auto_flag_reason |-> IF state = "active" THEN None ELSE "off_topic"]

CommentLoc ==
    [op |-> "vote_comment", comment_id |-> 0, nullifier |-> None,
     vote_type |-> None, comment |-> NewComment("active"), existing |-> {}]

CommentResp(l, status, kind) ==
    [NoResp EXCEPT !.op = "vote_comment", !.status = status, !.kind = kind,
                   !.asked = l.comment_id, !.nullifier = l.nullifier,
                   !.vote_type = l.vote_type,
                   !.existed = (l.existing # {})]

\* max(0, x)
max0(x) == IF x < 0 THEN 0 ELSE x

\* "Reverse old vote"
reverse_old_vote(c, t) ==
    IF t = "up" THEN [c EXCEPT !.upvotes = max0(@ - 1)]
    ELSE IF t = "down" THEN [c EXCEPT !.downvotes = max0(@ - 1)]
    ELSE IF t = "flag" THEN [c EXCEPT !.flag_count = max0(@ - 1)]
    ELSE c

\* "Apply new vote"
apply_new_vote(c, t) ==
    IF t = "up" THEN [c EXCEPT !.upvotes = @ + 1]
    ELSE IF t = "down" THEN [c EXCEPT !.downvotes = @ + 1]
    ELSE IF t = "flag" THEN [c EXCEPT !.flag_count = @ + 1]
    ELSE c

\* the counters of the loaded comment after "if existing_vote: ... else: ..."
count_vote(c, existing, t) ==
    IF existing # {}
    THEN LET e == CHOOSE e \in existing : TRUE
         IN  IF e.vote_type # t
             THEN apply_new_vote(reverse_old_vote(c, e.vote_type), t)
             ELSE c
    ELSE apply_new_vote(c, t)

\* "should_delete = (comment.downvotes >= DOWNVOTE_DELETE_THRESHOLD or
\*  (total_votes >= 3 and downvote_ratio >= DOWNVOTE_RATIO_THRESHOLD))"
should_delete(c) ==
    LET total == c.upvotes + c.downvotes
    IN  \/ c.downvotes >= DOWNVOTE_DELETE_THRESHOLD
        \/ /\ total >= RatioMinVotes
           /\ 10 * c.downvotes >= RatioTenths * total

\* the promotion rule, then the community flag rule
promote(c) ==
    LET total == c.upvotes + c.downvotes
    IN  IF /\ c.state \in {"auto_flagged", "community_flagged"}
           /\ total >= PromotionMinVotes
           /\ 10 * c.upvotes >= RatioTenths * total
        THEN [c EXCEPT !.state = "active", !.auto_flag_reason = None]
        ELSE c

community_flag(c) ==
    IF c.flag_count >= FlagThreshold /\ c.state = "active"
    THEN [c EXCEPT !.state = "community_flagged"]
    ELSE c

\* the UPDATE of the flush: the columns whose value differs from the loaded
\* one are written, the others keep what the table holds
update_comment(row, loaded, new) ==
    [col \in DOMAIN row |->
        IF new[col] # loaded[col] THEN new[col] ELSE row[col]]

VotesOn(comment_id) == {v \in comment_votes : v.comment_id = comment_id}

\* "comment = db.query(CommentModel).filter(id == comment_id).first()
\*  if not comment: raise HTTPException(404)"
vc_comment(w, requests) ==
    \E comment_id \in CommentIds : \E req \in requests :
    /\ pc[w] = "idle"
    /\ IF comment_id \in DOMAIN comments
       THEN /\ pc' = [pc EXCEPT ![w] = "vc_cred"]
            /\ loc' = [loc EXCEPT ![w] =
                         [CommentLoc EXCEPT !.comment_id = comment_id,
                                            !.nullifier = req[1],
                                            !.vote_type = req[2],
                                            !.comment = comments[comment_id]]]
            /\ UNCHANGED resp
       ELSE Finish(w, CommentResp([CommentLoc EXCEPT !.comment_id = comment_id,
                                                     !.nullifier = req[1],
                                                     !.vote_type = req[2]],
                                  404, "Comment not found"))
    /\ UNCHANGED <<leaves, root, registry, comments, comment_votes, valid_comment_vote_type, audit_logs, chain, creds, votes, manifestos, clock, stamp>>

\* "cred = db.query(ZKCredential).filter(nullifier_hash == nullifier,
\*  is_valid == True).first(); if not cred: raise HTTPException(401)"
vc_cred(w) ==
    /\ pc[w] = "vc_cred"
    /\ IF \E c \in creds : c.nullifier_hash = loc[w].nullifier /\ c.is_valid
       THEN /\ pc' = [pc EXCEPT ![w] = "vc_existing"]
            /\ UNCHANGED <<loc, resp>>
       ELSE Finish(w, CommentResp(loc[w], 401, "Invalid nullifier"))
    /\ UNCHANGED <<leaves, root, registry, comments, comment_votes, valid_comment_vote_type, audit_logs, chain, creds, votes, manifestos, clock, stamp>>

\* "existing_vote = db.query(CommentVote).filter(comment_id == comment_id,
\*  nullifier == vote_request.nullifier).first()"
vc_existing(w) ==
    /\ pc[w] = "vc_existing"
    /\ pc' = [pc EXCEPT ![w] = "vc_commit"]
    /\ loc' = [loc EXCEPT ![w].existing =
                 {v \in VotesOn(loc[w].comment_id) :
                      v.nullifier = loc[w].nullifier}]
    /\ UNCHANGED resp
    /\ UNCHANGED <<leaves, root, registry, comments, comment_votes, valid_comment_vote_type, audit_logs, chain, creds, votes, manifestos, clock, stamp>>

\* the error that db.commit() raises for the flush of the counted vote, or
\* None: the UPDATE of a comment or of a vote row that is gone matches no row
\* (StaleDataError), the INSERT or UPDATE of the vote row is checked against
\* valid_comment_vote_type and unique_vote_per_comment
flush_error(l, new) ==
    LET vote_written == l.existing = {}
                            \/ \E e \in l.existing : e.vote_type # l.vote_type
    IN  IF new # l.comment /\ l.comment_id \notin DOMAIN comments
        THEN "StaleDataError"
        ELSE IF ~vote_written THEN None
        ELSE IF l.vote_type \notin valid_comment_vote_type
        THEN "valid_comment_vote_type"
        ELSE IF l.existing = {}
        THEN IF \E v \in VotesOn(l.comment_id) : v.nullifier = l.nullifier
             THEN "unique_vote_per_comment"
             ELSE IF l.comment_id \notin DOMAIN comments
                  THEN "comment_votes_comment_id_fkey"
                  ELSE None
        ELSE IF \E v \in VotesOn(l.comment_id) : v.nullifier = l.nullifier
             THEN None
             ELSE "StaleDataError"

\* the counting of the vote in memory, then either _delete_comment_cascade
\* and db.commit(), or the promotion and flag rules and db.commit(); an error
\* of the commit leaves the tables as they were (close_session)
vc_commit(w) ==
    LET l == loc[w]
        counted == count_vote(l.comment, l.existing, l.vote_type)
        new == community_flag(promote(counted))
        row == [comment_id |-> l.comment_id, nullifier |-> l.nullifier,
                vote_type |-> l.vote_type]
        others == {v \in comment_votes :
                       ~(v.comment_id = l.comment_id
                            /\ v.nullifier = l.nullifier)}
    IN  /\ pc[w] = "vc_commit"
        /\ counted.upvotes <= MaxTally
        /\ counted.downvotes <= MaxTally
        /\ counted.flag_count <= MaxTally
        /\ IF should_delete(counted)
           THEN \* the pending INSERT of a new vote row and the DELETE of the
                \* comment it refers to are flushed together
                \E fk_violation \in {l.existing = {}, FALSE} :
                   IF fk_violation
                   THEN /\ comments' = close_session(comments, <<>>)
                        /\ comment_votes' = close_session(comment_votes, {})
                        /\ Finish(w, CommentResp(l, 500,
                                         "comment_votes_comment_id_fkey"))
                   ELSE /\ comments' = [i \in DOMAIN comments \ {l.comment_id}
                                            |-> comments[i]]
                        /\ comment_votes' = comment_votes \ VotesOn(l.comment_id)
                        /\ Finish(w, [CommentResp(l, 200, "deleted")
                                        EXCEPT !.aggregate = <<0, 0, 0, "deleted">>])
           ELSE IF flush_error(l, new) # None
           THEN /\ comments' = close_session(comments, comments)
                /\ comment_votes' = close_session(comment_votes, comment_votes)
                /\ Finish(w, CommentResp(l, 500, flush_error(l, new)))
           ELSE /\ comments' =
                     IF l.comment_id \in DOMAIN comments
                     THEN [comments EXCEPT ![l.comment_id] =
                              update_comment(@, l.comment, new)]
                     ELSE comments
                /\ comment_votes' =
                     IF l.existing = {}
                             \/ \E e \in l.existing : e.vote_type # l.vote_type
                     THEN others \cup {row}
                     ELSE comment_votes
                /\ Finish(w, [CommentResp(l, 200, "voted")
                                EXCEPT !.aggregate =
                                    <<new.upvotes, new.downvotes,
                                      new.flag_count, new.state>>])
        /\ UNCHANGED <<leaves, root, registry, valid_comment_vote_type, audit_logs, chain, creds, votes, manifestos, clock, stamp>>

vote_comment(w, requests) ==
    vc_comment(w, requests) \/ vc_cred(w) \/ vc_existing(w) \/ vc_commit(w)

\* One comment, active or held back by the automatic moderation, in a
\* database created from the models or brought up by the migrations; every
\* commenting nullifier holds a valid credential
CommentInit ==
    /\ leaves = RegisteredVoters
    /\ root = R1
    /\ registry = PublishedRegistry(leaves)
    /\ audit_logs = <<>>
    /\ chain = EmptyChain
    /\ \E state \in {"active", "auto_flagged"} :
          comments = [i \in CommentIds |-> NewComment(state)]
    /\ comment_votes = {}
    /\ valid_comment_vote_type \in {ModelVoteTypes, MigratedVoteTypes}
    /\ creds = {[id |-> 1, nullifier_hash |-> "n1", credential_hash |-> "tok1", is_valid |-> TRUE],
                [id |-> 2, nullifier_hash |-> "n2", credential_hash |-> "tok2", is_valid |-> TRUE],
                [id |-> 3, nullifier_hash |-> "n3", credential_hash |-> "tok3", is_valid |-> TRUE],
                [id |-> 4, nullifier_hash |-> "n4", credential_hash |-> "tok4", is_valid |-> TRUE],
                [id |-> 5, nullifier_hash |-> "n5", credential_hash |-> "tok5", is_valid |-> TRUE]}
    /\ votes = {}
    /\ manifestos = <<>>
    /\ clock = 0
    /\ stamp = 0
    /\ pc = [w \in Workers |-> "idle"]
    /\ loc = [w \in Workers |-> IdleLoc]
    /\ resp = [w \in Workers |-> NoResp]

\* Flags under concurrent requests
CommentNext == \E w \in Workers : vote_comment(w, FlagRequests) \/ Return(w)

CommentSpec == CommentInit /\ [][CommentNext]_vars

\* Up votes, down votes and flags with one request at a time
CommentSeqNext ==
    \E w \in Workers :
        OthersIdle(w) /\ (vote_comment(w, CommentRequests) \/ Return(w))

CommentSeqSpec == CommentInit /\ [][CommentSeqNext]_vars

\* The whole backend with one request at a time
SeqNext ==
    \/ Tick \/ load_and_build \/ Revoke
    \/ \E w \in Workers : OthersIdle(w) /\ (Issuing(w) \/ Voting(w) \/ Reading(w)
                                            \/ get_merkle_proof(w))

SeqSpec == Init /\ [][SeqNext]_vars

\* The whole backend under concurrent requests
Next ==
    \/ Tick \/ load_and_build \/ Revoke
    \/ \E w \in Workers : Issuing(w) \/ Voting(w) \/ Reading(w)
                            \/ get_merkle_proof(w)

Spec == Init /\ [][Next]_vars

\* ------------------------------------------------------------------------
\* Properties
\* ------------------------------------------------------------------------
IssuingOps == {"zk_login", "verify_zk_proof", "verify_real_zk_proof"}
CommitPcs == {"login_commit", "verify_commit", "real_commit"}
RowsOf(rows, m, n) == {v \in rows : v.manifesto_id = m /\ v.nullifier = n}

\* C1: in every reachable state, whatever the interleaving of the issuing
\* handlers, zk_credentials holds at most one row for any nullifier
C1_OneCredentialPerNullifier ==
    \A c1, c2 \in creds : c1.nullifier_hash = c2.nullifier_hash => c1 = c2

\* two requests raced for one fresh nullifier: one row was stored, the other
\* INSERT was refused
C1_Witness ==
    \E w \in Workers :
        /\ pc[w] = "done"
        /\ resp[w].op \in IssuingOps
        /\ resp[w].kind = "IntegrityError"
        /\ Cardinality(CredsOf(resp[w].nullifier)) = 1

\* C2: in every reachable state, whatever the interleaving of submit_vote
\* requests, manifesto_votes holds at most one row for any
\* (manifesto_id, nullifier) pair
C2_OneVotePerManifestoAndNullifier ==
    \A v1, v2 \in votes :
        (v1.manifesto_id = v2.manifesto_id /\ v1.nullifier = v2.nullifier)
            => v1 = v2

\* two requests both found no existing vote; the second INSERT was refused by
\* the unique constraint
C2_Witness ==
    \E w \in Workers :
        /\ pc[w] = "done"
        /\ resp[w].op = "submit_vote"
        /\ resp[w].kind = "IntegrityError"
        /\ ~resp[w].existed
        /\ valid_vote_type(resp[w].vote_type)
        /\ Cardinality(RowsOf(votes, resp[w].manifesto_id, resp[w].nullifier)) = 1

\* C3: for every manifesto, vote_kept is the number of its vote rows of type
\* 'kept' and vote_broken the number of its vote rows of type 'broken'
C3_CountersEqualVoteRows ==
    \A m \in DOMAIN manifestos :
        /\ manifestos[m].vote_kept =
             Cardinality({v \in votes : v.manifesto_id = m /\ v.vote_type = "kept"})
        /\ manifestos[m].vote_broken =
             Cardinality({v \in votes : v.manifesto_id = m /\ v.vote_type = "broken"})

\* C4: a credential row appears for a nullifier only in the commit of a
\* request whose claimed root was the current root and for which the
\* external verifier was run and answered valid: true
C4_StoredOnlyAfterVerifierSuccess ==
    [][\A n \in Nullifiers :
         ({c \in creds : c.nullifier_hash = n} = {}
              /\ {c \in creds' : c.nullifier_hash = n} # {})
         => \E w \in Workers :
               /\ pc[w] \in CommitPcs
               /\ pc'[w] = "done"
               /\ loc[w].nullifier = n
               /\ loc[w].rootOk
               /\ loc[w].explicitOk]_vars

\* C5: an issuing request whose claimed root differs from the current root is
\* rejected, returns no credential and stores none, and never gets past the
\* root check
C5_StaleRootRejected ==
    \A w \in Workers :
        /\ (pc[w] = "done" /\ resp[w].stale) =>
               /\ resp[w].kind = "stale"
               /\ ~resp[w].valid
               /\ resp[w].credential = None
               /\ ~resp[w].stored
        /\ pc[w] \in CommitPcs \cup {"real_verify"} => loc[w].rootOk

\* a stale root was rejected when every nullifier had been issued already
C5_Witness ==
    \E w \in Workers :
        /\ pc[w] = "done"
        /\ resp[w].op \in IssuingOps
        /\ resp[w].stale
        /\ resp[w].kind = "stale"
        /\ \A n \in Nullifiers : CredsOf(n) # {}

\* C6: an issuing request for an already issued nullifier (and the current
\* root) succeeds with the stored credential, and exactly one record is stored
C6_IssueIdempotent ==
    \A w \in Workers :
        (pc[w] = "done" /\ resp[w].op \in IssuingOps /\ resp[w].existed) =>
            /\ resp[w].status = 200
            /\ resp[w].valid
            /\ Cardinality(CredsOf(resp[w].asked)) = 1
            /\ \A c \in CredsOf(resp[w].asked) :
                   resp[w].credential = c.credential_hash

C9_VoteNeedsValidCredential ==
    /\ \A w \in Workers :
          /\ (pc[w] = "done" /\ resp[w].op = "submit_vote"
                 /\ ~resp[w].validAtCall) =>
                 (resp[w].status = 401 /\ resp[w].kind = "unauthorized")
          /\ pc[w] \in {"vote_existing", "vote_commit"} => loc[w].validAtCall
    /\ \A v \in votes : CredsOf(v.nullifier) # {}

\* a vote of a nullifier whose credential was revoked was answered 401
C9_Witness ==
    \E w \in Workers :
        /\ pc[w] = "done"
        /\ resp[w].op = "submit_vote"
        /\ resp[w].status = 401
        /\ \E c \in CredsOf(resp[w].nullifier) : ~c.is_valid

\* C10: with one request at a time, for a valid credential, an existing
\* manifesto and a choice kept or broken: the request is rejected and nothing
\* is written when now < grace_period_end, and the vote is recorded when
\* now >= grace_period_end
C10_GracePeriodGate ==
    [][\A w \in Workers :
         LET m == loc[w].manifesto_id
         IN  /\ (pc[w] = "vote_existing" /\ pc'[w] # "vote_existing") =>
                   IF clock < manifestos[m].grace_period_end
                   THEN /\ pc'[w] = "done"
                        /\ resp'[w].status = 400
                        /\ resp'[w].kind = "grace_period"
                        /\ votes' = votes
                        /\ manifestos' = manifestos
                   ELSE pc'[w] = "vote_commit"
             /\ (pc[w] = "vote_commit" /\ pc'[w] = "done"
                     /\ valid_vote_type(loc[w].vote_type)) =>
                   /\ resp'[w].status = 200
                   /\ \E v \in RowsOf(votes', m, loc[w].nullifier) :
                          v.vote_type = loc[w].vote_type]_vars

\* a vote on manifesto 1 was accepted at now = grace_period_end exactly
C10_Witness ==
    \E w \in Workers :
        /\ pc[w] = "done"
        /\ resp[w].op = "submit_vote"
        /\ resp[w].status = 200
        /\ resp[w].manifesto_id = 1
        /\ clock = manifestos[1].grace_period_end

\* C11: a verify_real_zk_proof request whose verifier was unreachable, timed
\* out or failed ends with 401, returns no credential and stores none, and is
\* never at the position where the credential is stored
C11_VerifierFailClosed ==
    \A w \in Workers :
        /\ (pc[w] = "done" /\ resp[w].verifierFailed) =>
               /\ resp[w].status = 401
               /\ ~resp[w].valid
               /\ resp[w].credential = None
               /\ ~resp[w].stored
        /\ pc[w] = "real_commit" => ~loc[w].verifierFailed

\* the verifier failed for a fresh nullifier, which still has no credential
C11_Witness ==
    \E w \in Workers :
        /\ pc[w] = "done"
        /\ resp[w].op = "verify_real_zk_proof"
        /\ resp[w].verifierFailed
        /\ resp[w].status = 401
        /\ creds = {}

\* C12: every issuing request that found its nullifier fresh and goes on to
\* store a credential completes without error and returns the one credential
\* stored for that nullifier, whatever other request ran in between
C12_ConcurrentIssueBothSucceed ==
    [][\A w \in Workers :
         (pc[w] \in CommitPcs /\ pc'[w] = "done") =>
            LET stored == {c \in creds' : c.nullifier_hash = loc[w].nullifier}
            IN  /\ resp'[w].status = 200
                /\ resp'[w].valid
                /\ Cardinality(stored) = 1
                /\ \A c \in stored : resp'[w].credential = c.credential_hash]_vars

\* C13: the commit of a first vote of a nullifier on a manifesto adds exactly
\* one to the committed counter of its choice and leaves the other counter as
\* committed, whatever votes of other nullifiers were committed since the
\* request read the counters: no counter update is lost
C13_NoLostCounterUpdate ==
    [][\A w \in Workers :
         LET m == loc[w].manifesto_id
         IN  (/\ pc[w] = "vote_commit"
              /\ pc'[w] = "done"
              /\ loc[w].existing = {}
              /\ RowsOf(votes, m, loc[w].nullifier) = {}
              /\ valid_vote_type(loc[w].vote_type))
             => /\ manifestos'[m].vote_kept = manifestos[m].vote_kept +
                       (IF loc[w].vote_type = "kept" THEN 1 ELSE 0)
                /\ manifestos'[m].vote_broken = manifestos[m].vote_broken +
                       (IF loc[w].vote_type = "broken" THEN 1 ELSE 0)]_vars

\* C14: once a nullifier has a credential, every later state holds the same
\* rows for it with the same credential value, and the is_valid of a row
\* never goes from false back to true
C14_CredentialLifecycleForward ==
    [][\A n \in Nullifiers :
         LET before == {c \in creds : c.nullifier_hash = n}
             after == {c \in creds' : c.nullifier_hash = n}
         IN  before # {} =>
               /\ {c.id : c \in after} = {c.id : c \in before}
               /\ \A c \in before : \E d \in after :
                      /\ d.id = c.id
                      /\ d.credential_hash = c.credential_hash
                      /\ (~c.is_valid => ~d.is_valid)]_vars

\* a nullifier went unseen -> issued,valid -> issued,invalid, and an issuing
\* request for it found the credential value it was issued with
C14_Witness ==
    \E v \in Workers : \E c \in creds :
        /\ ~c.is_valid
        /\ pc[v] = "done"
        /\ resp[v].existed
        /\ resp[v].asked = c.nullifier_hash
        /\ resp[v].credential = c.credential_hash

\* C15: check_credential changes no table; for a nullifier with a valid
\* credential it answers valid, can_vote and exactly the manifesto ids of
\* that nullifier's vote rows; for a nullifier without a credential it
\* answers not valid, not can_vote and the empty list
C15_CheckCredentialReadOnly ==
    [][\A w \in Workers :
         /\ ((pc[w] = "idle" /\ pc'[w] # "idle"
                  /\ (resp'[w].op = "check_credential"
                         \/ loc'[w].op = "check_credential"))
               \/ (pc[w] = "check_votes" /\ pc'[w] = "done"))
             => /\ creds' = creds
                /\ votes' = votes
                /\ manifestos' = manifestos
         /\ (pc[w] = "check_votes" /\ pc'[w] = "done") =>
                /\ resp'[w].valid
                /\ resp'[w].can_vote
                /\ resp'[w].used_votes =
                       {m \in ManifestoIds :
                          RowsOf(votes, m, loc[w].nullifier) # {}}
         /\ (pc[w] = "idle" /\ pc'[w] = "done"
                 /\ resp'[w].op = "check_credential"
                 /\ CredsOf(resp'[w].nullifier) = {}) =>
                /\ ~resp'[w].valid
                /\ ~resp'[w].can_vote
                /\ resp'[w].used_votes = {}]_vars

\* check_credential answered with the one manifesto a nullifier voted on,
\* while another nullifier has a vote on another manifesto
C15_Witness ==
    \E w \in Workers :
        /\ pc[w] = "done"
        /\ resp[w].op = "check_credential"
        /\ resp[w].valid
        /\ resp[w].used_votes = {2}
        /\ \E v \in votes : v.nullifier # resp[w].nullifier /\ v.manifesto_id = 1

\* C16: get_manifesto_votes changes no table and reports the cached
\* counters, their sum as the total, and 0 for both percentages when the
\* total is 0
C16_AggregateRead ==
    [][\A w \in Workers :
         (pc[w] = "idle" /\ pc'[w] = "done"
              /\ resp'[w].op = "get_manifesto_votes") =>
            /\ creds' = creds
            /\ votes' = votes
            /\ manifestos' = manifestos
            /\ resp'[w].status = 200 =>
                  LET a == resp'[w].aggregate
                      m == manifestos[resp'[w].manifesto_id]
                  IN  /\ a.vote_kept = m.vote_kept
                      /\ a.vote_broken = m.vote_broken
                      /\ a.total_votes = m.vote_kept + m.vote_broken
                      /\ a.total_votes = 0 =>
                            /\ a.kept_percentage = 0
                            /\ a.broken_percentage = 0]_vars

\* the aggregate of a manifesto without votes was read (total 0, both
\* percentages 0) while the other manifesto has votes
C16_Witness ==
    \E w \in Workers :
        /\ pc[w] = "done"
        /\ resp[w].op = "get_manifesto_votes"
        /\ resp[w].status = 200
        /\ resp[w].aggregate.total_votes = 0
        /\ resp[w].aggregate.kept_percentage = 0
        /\ resp[w].aggregate.broken_percentage = 0
        /\ votes # {}

ProofsOut ==
    {resp[w].proof : w \in {v \in Workers :
                              /\ resp[v].op = "get_merkle_proof"
                              /\ resp[v].status = 200}}
\* the number of levels between the leaves and the root of the built tree
TreeDepth == Len(build_tree(leaves).tree) - 1

\* C18: for every voter list of up to MaxLeaves leaves and every index of
\* it, folding the proof handed out for that index (its path elements with
\* their sides, in order) onto the leaf gives the root built over the list
C18_ProofFoldsToRoot ==
    \A p \in ProofsOut :
        /\ p.leaf = leaves[p.leafIndex + 1]
        /\ verify(p.leaf, p, root)

\* the values a forged proof is put together from: every node of the tree,
\* every leaf of the pool and the two fillers
HashValues ==
    LET tree == build_tree(leaves).tree
    IN  UNION {{tree[lv][i] : i \in 1..Len(tree[lv])} : lv \in 1..Len(tree)}
        \cup LeafPool \cup {ForeignLeaf, zero_hash, ZeroElement}
\* C19: over a list of 5 leaves, a handed-out proof with any one sibling
\* replaced by another value does not verify against the root, and no proof
\* with one entry per level of the tree verifies a leaf that is not in the
\* list
C19_SoundUnderCorruption ==
    Len(leaves) = 5 =>
        /\ \A p \in ProofsOut : \A k \in 1..Len(p.pathElements) :
               \A x \in HashValues \ {p.pathElements[k]} :
                   ~verify(p.leaf, [p EXCEPT !.pathElements[k] = x], root)
        /\ \A leaf \in (LeafPool \cup {ForeignLeaf, zero_hash})
                            \ LeavesOf(leaves) :
               \A pe \in [1..TreeDepth -> HashValues] :
                   \A pi \in [1..TreeDepth -> {0, 1}] :
                       ~verify(leaf, [pathElements |-> pe, pathIndices |-> pi],
                               root)

\* C20: a handed-out proof has one (sibling, side) entry per level of the
\* padded tree; over 5 leaves, padded to 8, that is 3 path elements and 3
\* path indices
C20_OneEntryPerLevel ==
    \A p \in ProofsOut :
        /\ Len(p.pathElements) = TreeDepth
        /\ Len(p.pathIndices) = TreeDepth
        /\ Len(leaves) = 5 => Len(p.pathElements) = 3 /\ Len(p.pathIndices) = 3

\* C21: a call of the proof function with a leaf index outside
\* 0..len(leaves)-1 (negative, in the padding, beyond the padded width) ends
\* in an error and returns no proof object
C21_OutOfRangeIndexIsError ==
    \A w \in Workers :
        (/\ resp[w].op = "_get_sha256_proof"
         /\ resp[w].leaf_index \notin 0..(Len(leaves) - 1))
        => resp[w].kind = "IndexError" /\ resp[w].proof = <<>>

SameBag(a, b) ==
    /\ Len(a) = Len(b)
    /\ \A c \in LeavesOf(a) \cup LeavesOf(b) :
          Cardinality({i \in 1..Len(a) : a[i] = c})
              = Cardinality({i \in 1..Len(b) : b[i] = c})

\* C23: for every list of commitments and every seed the shuffle keeps the
\* multiset of the commitments, the shuffled list is what is published as
\* the leaves, and voter_count is the number of published leaves
C23_ShuffleIsPermutation ==
    [][/\ (registry.pc = "shuffle" /\ registry'.pc = "leaves")
            => SameBag(registry.commitments, registry'.commitments)
       /\ (registry.pc = "leaves" /\ registry'.pc = "map")
            => leaves' = registry.commitments
       /\ registry'.pc = "published"
            => registry'.voter_count = Len(leaves')]_vars

\* a published registry of three leaves, two of them of one voter id
C23_Witness ==
    /\ Published
    /\ Len(leaves) = 3
    /\ leaves[1] = leaves[3]
    /\ leaves[1] # leaves[2]
    /\ registry.voter_count = 3
    /\ registry.shuffle_seed > 0

\* C24: once the registry is built and published, the server keeps no index
\* that gives the shuffled position of a voter's leaf without a search of the
\* published leaves: the commitment map of the build is discarded
C24_NoRetainedIndex ==
    Published => DOMAIN registry.commitment_map = {}

HashOps == {"compute_voter_leaf", "compute_commitment"}

\* C25: two calls of compute_voter_leaf, or of compute_commitment, with the
\* same inputs on one registry return the same value, whether the hashing
\* helper answers at each of the calls or not
C25_LeafDeterministic ==
    \A w1 \in Workers : \A w2 \in Workers :
        (/\ resp[w1].op \in HashOps
         /\ resp[w2].op = resp[w1].op
         /\ resp[w2].asked = resp[w1].asked)
        => resp[w2].leaf = resp[w1].leaf

\* C26: with use_poseidon on, no operation gives the SHA256 result: a computed
\* leaf or commitment is the one of the helper, and the build does not go on
\* past a failed helper call with SHA256 leaves or a SHA256 tree
C26_NoSilentFallback ==
    registry.use_poseidon =>
        /\ ~registry.warned
        /\ \A w \in Workers :
              /\ resp[w].op = "compute_voter_leaf"
                    => resp[w].leaf = PoseidonLeaf(resp[w].asked[1])
              /\ resp[w].op = "compute_commitment"
                    => resp[w].leaf = PoseidonCommitment(resp[w].asked[1],
                                                         resp[w].asked[2])

\* C27: no reader sees a registry that is half built: whatever the moment of
\* the request, the root, the leaves, the count and the seed that
\* get_anonymity_set returns are of one snapshot, the root being the root of
\* the tree over the returned leaves and the count their number
C27_SnapshotAtomic ==
    \A w \in Workers :
        resp[w].op = "get_anonymity_set" =>
            LET a == resp[w].aggregate
            IN  /\ a.root \in {build_tree(a.leaves).root,
                                PoseidonRoot(a.leaves)}
                /\ a.total_voters = Len(a.leaves)
                /\ a.leaves # <<>> => a.shuffle_seed \in Seeds

\* the anonymity set of a registry of two leaves was served
C27_Witness ==
    \E w \in Workers :
        /\ resp[w].op = "get_anonymity_set"
        /\ Len(resp[w].aggregate.leaves) = 2
        /\ resp[w].aggregate.leaves = leaves
        /\ resp[w].aggregate.root = root

\* C28: the vote hash returned by a successful submit_vote (new vote, changed
\* vote or unchanged resubmission) is verified by verify_vote for the voted
\* manifesto; here the verification follows the submission, and no other vote
\* was submitted in between
C28_ReceiptVerifiable ==
    (/\ resp["w1"].op = "submit_vote"
     /\ resp["w1"].status = 200
     /\ resp["w2"].op = "verify_vote"
     /\ resp["w2"].vote_hash = resp["w1"].vote_hash)
    => /\ resp["w2"].valid
       /\ resp["w2"].manifesto_id = resp["w1"].manifesto_id

\* C29: the audit log is a linear hash chain after any interleaving of
\* create_manifesto and submit_signed_manifesto: the prev_hash of every entry
\* is the block_hash of the entry immediately before it, and no two entries
\* share a prev_hash
C29_LinearChain ==
    /\ \A i \in 2..Len(audit_logs) :
          audit_logs[i].prev_hash = audit_logs[i - 1].block_hash
    /\ \A i \in 1..Len(audit_logs) : \A j \in 1..Len(audit_logs) :
          audit_logs[i].prev_hash = audit_logs[j].prev_hash => i = j

\* the step of worker w stores rows for submit_signed_manifesto
StoresSigned(w) ==
    /\ loc[w].op = "submit_signed_manifesto"
    /\ pc'[w] # pc[w]
    /\ (manifestos' # manifestos \/ audit_logs' # audit_logs)

\* the step of worker w ends submit_signed_manifesto with the error of a
\* failed blockchain write
FailsOnChain(w) ==
    /\ loc[w].op = "submit_signed_manifesto"
    /\ pc[w] # "done"
    /\ resp'[w].status = 500

\* the manifesto rows stored by the handlers
StoredByHandlers ==
    {m \in DOMAIN manifestos :
        ~(m \in 1..Len(SeededManifestos)
          /\ manifestos[m] = SeededManifesto(m))}

\* C30: submit_signed_manifesto writes the blockchain before the database:
\* with the chain connected the manifesto row and its audit entry are stored
\* only after the on-chain submission succeeded, a failed registration or
\* submission stores nothing, and a stored manifesto has blockchain_confirmed
\* only if its submission is on the chain
C30_ChainBeforeDatabase ==
    /\ [][\A w \in Workers :
            /\ StoresSigned(w) =>
                  /\ loc[w].connected =>
                        /\ loc[w].submit_success
                        /\ OnChain(loc[w].politician_id,
                                   compute_manifesto_hash(loc[w].description))
                              \in chain.manifestos
                  /\ manifestos'[NextManifestoId].blockchain_confirmed
                        = (loc[w].connected /\ loc[w].submit_success)
                  /\ DOMAIN manifestos' = DOMAIN manifestos \cup {NextManifestoId}
                  /\ Len(audit_logs') = Len(audit_logs) + 1
            /\ FailsOnChain(w) =>
                  /\ manifestos' = manifestos
                  /\ audit_logs' = audit_logs
                  /\ loc[w].new_id = 0]_vars
    /\ [](\A m \in StoredByHandlers :
            manifestos[m].blockchain_confirmed =>
                \E tx \in chain.manifestos :
                    /\ tx.content_hash = manifestos[m].promise_hash
                    /\ tx.politician_id = manifestos[m].politician_id
                    /\ tx.tx_hash = manifestos[m].blockchain_tx)
    /\ [](\A i \in 1..Len(audit_logs) :
            (audit_logs[i].blockchain_confirmed
             /\ audit_logs[i].manifesto_id \in StoredByHandlers)
                => manifestos[audit_logs[i].manifesto_id].blockchain_confirmed)

\* a confirmed manifesto and an unconfirmed one are stored, and a request has
\* failed on the chain after another was stored
C30_Witness ==
    /\ \E m \in StoredByHandlers :
          manifestos[m].signed /\ manifestos[m].blockchain_confirmed
    /\ \E m \in StoredByHandlers :
          manifestos[m].signed /\ ~manifestos[m].blockchain_confirmed
    /\ \E w \in Workers :
          /\ resp[w].op = "submit_signed_manifesto"
          /\ resp[w].status = 500
          /\ resp[w].kind = "submit_failed"

\* C31: verify_groth16_proof_nodejs returns is_valid = true only when the
\* output of the verifier process explicitly contains valid = true, and
\* is_valid = false for every other outcome of the process
C31_ExplicitSuccessOnly ==
    \A w \in Workers :
        resp[w].op = "verify_groth16_proof_nodejs" =>
            (resp[w].valid <=> ExplicitSuccess(resp[w].asked))

\* the step is one of the submit_vote handler of worker w
VoteStep(w) ==
    /\ pc[w] \in {"idle", "vote_existing", "vote_commit"}
    /\ pc'[w] # pc[w]
    /\ (pc'[w] \in {"vote_existing", "vote_commit"}
        \/ resp'[w].op = "submit_vote")

\* C32: a submit_vote call that ends in an error (invalid credential, unknown
\* manifesto, grace period still active, rejected row) leaves every vote row
\* and every manifesto counter as it was: the only step of a call that changes
\* the tables is the one that ends it with success
C32_ErrorChangesNothing ==
    [][\A w \in Workers :
         (VoteStep(w) /\ ~(pc'[w] = "done" /\ resp'[w].status = 200)) =>
            /\ votes' = votes
            /\ manifestos' = manifestos]_vars

\* with a vote stored, one call has ended on the grace period and one on an
\* unknown manifesto
C32_Witness ==
    /\ votes # {}
    /\ \E w \in Workers :
          /\ resp[w].op = "submit_vote"
          /\ resp[w].status = 400
    /\ \E w \in Workers :
          /\ resp[w].op = "submit_vote"
          /\ resp[w].status = 404
          /\ resp[w].manifesto_id \notin DOMAIN manifestos

\* C36: a submit_vote call with a choice outside {kept, broken} is rejected
\* and changes nothing: no step of it creates or modifies a vote row or
\* changes vote_kept or vote_broken, it never ends with success, and no stored
\* row carries such a choice
C36_InvalidChoiceRejected ==
    /\ [][\A w \in Workers :
            (/\ loc[w].op = "submit_vote"
             /\ loc[w].vote_type \notin {"kept", "broken"}
             /\ pc'[w] # pc[w]) =>
                /\ votes' = votes
                /\ manifestos' = manifestos
                /\ pc'[w] = "done" => resp'[w].status # 200]_vars
    /\ [](\A w \in Workers :
            (resp[w].op = "submit_vote" /\ resp[w].status = 200) =>
                resp[w].vote_type \in {"kept", "broken"})
    /\ [](\A v \in votes : v.vote_type \in {"kept", "broken"})

\* a choice outside {kept, broken} was rejected at the commit, for a
\* nullifier that has a vote on that manifesto
C36_Witness ==
    \E w \in Workers :
        /\ resp[w].op = "submit_vote"
        /\ resp[w].vote_type = "maybe"
        /\ resp[w].status = 500
        /\ resp[w].existed
        /\ \E v \in votes : /\ v.manifesto_id = resp[w].manifesto_id
                             /\ v.nullifier = resp[w].nullifier

\* C33: verify_zk_proof answers a request for an already issued nullifier in
\* the same way in both request formats, and as zk_login does: valid = true
\* with the existing credential, that nullifier and the manifesto ids it has
\* voted on, also when the nullifier came through publicSignals only
C33_FormatsAlike ==
    \A w \in Workers :
        (resp[w].op \in {"zk_login", "verify_zk_proof"} /\ resp[w].existed) =>
            /\ resp[w].status = 200
            /\ resp[w].valid
            /\ resp[w].nullifier = resp[w].asked
            /\ \E c \in creds : /\ c.nullifier_hash = resp[w].asked
                                /\ c.credential_hash = resp[w].credential
            /\ resp[w].used_votes = UsedVotes(resp[w].asked)

\* C34: under any sequence or interleaving of submit_vote calls, the counters
\* of a manifesto that was created with vote_kept = vote_broken = 0 (manifesto
\* 1) are never negative
C34_CountersNonNegative ==
    /\ manifestos[1].vote_kept >= 0
    /\ manifestos[1].vote_broken >= 0

\* C35: every proof VoterRegistry.get_merkle_proof returns for a commitment
\* carries that commitment as its leaf and the root of registry.merkle_tree,
\* whichever hashing path built the tree and whichever produced the proof
C35_ProofOfPublishedRoot ==
    \A w \in Workers :
        (resp[w].op = "VoterRegistry.get_merkle_proof"
         /\ resp[w].kind = "proof") =>
            /\ resp[w].proof.leaf = resp[w].asked
            /\ resp[w].proof.root = root

\* C38: after load_and_build, find_leaf_index(c) is an index i with
\* leaves[i] = c for every value c that occurs in the published leaves,
\* repeated values included, and -1 exactly for the values that do not occur;
\* the index a proof request found is of that kind
C38_IndexOfEveryLeaf ==
    /\ registry.pc \in {"tree", "built", "published"} =>
          \A c \in {hash_node(v) : v \in VoterIds}
                  \cup {PoseidonLeaf(v) : v \in VoterIds} \cup {ForeignLeaf} :
              IF c \in LeavesOf(leaves)
              THEN /\ find_leaf_index(c) \in 0..(Len(leaves) - 1)
                   /\ leaves[find_leaf_index(c) + 1] = c
              ELSE find_leaf_index(c) = -1
    /\ \A w \in Workers :
          resp[w].op = "VoterRegistry.get_merkle_proof" =>
              IF resp[w].asked \in LeavesOf(leaves)
              THEN /\ resp[w].leaf_index \in 0..(Len(leaves) - 1)
                   /\ leaves[resp[w].leaf_index + 1] = resp[w].asked
              ELSE resp[w].leaf_index = -1

\* the index of a value that the leaves hold twice was found, and a value
\* outside the leaves was answered with -1
C38_Witness ==
    /\ Len(leaves) > Cardinality(LeavesOf(leaves))
    /\ registry.pc = "published"
    /\ find_leaf_index(ForeignLeaf) = -1
    /\ \E w \in Workers :
          /\ resp[w].op = "VoterRegistry.get_merkle_proof"
          /\ resp[w].leaf_index >= 0
          /\ \E i \in 1..Len(leaves) : \E j \in 1..Len(leaves) :
                i # j /\ leaves[i] = resp[w].asked /\ leaves[j] = resp[w].asked

\* the flag rows of a comment whose nullifier holds a valid credential
FlagsOn(comment_id) ==
    {v \in VotesOn(comment_id) :
        /\ v.vote_type = "flag"
        /\ \E c \in creds : c.nullifier_hash = v.nullifier /\ c.is_valid}

\* C37: flagging takes effect: no flag request is refused for its vote type,
\* a comment that holds flag rows of 5 distinct nullifiers with valid
\* credentials has flag_count = 5 and has left the state 'active', and
\* comment_votes holds at most one row per (comment, nullifier)
C37_FlaggingTakesEffect ==
    /\ \A w \in Workers :
          resp[w].op = "vote_comment" /\ resp[w].vote_type = "flag" =>
              resp[w].kind # "valid_comment_vote_type"
    /\ \A id \in DOMAIN comments :
          Cardinality(FlagsOn(id)) >= FlagThreshold =>
              /\ comments[id].flag_count = Cardinality(FlagsOn(id))
              /\ comments[id].state # "active"
    /\ \A v1 \in comment_votes : \A v2 \in comment_votes :
          v1.comment_id = v2.comment_id /\ v1.nullifier = v2.nullifier
              => v1 = v2
====
